---- MODULE Spec2Model ----
(***************************************************************************)
(* A model of opencc-jieba-rs: the delimiter splitter, the phrase-first    *)
(* converter (serial and range-parallel), the punctuation mapper and the   *)
(* configuration router of src/src/lib.rs.                                 *)
(*                                                                         *)
(* A text is a sequence of Unicode scalar values (code points); a byte     *)
(* offset into a text is the sum of the UTF-8 lengths of the scalars       *)
(* before it, as str::len and str::char_indices count.                     *)
(***************************************************************************)
EXTENDS Integers, Sequences, FiniteSets, TLC

VARIABLES
    pc,            \* position of the running call
    input,         \* the text argument of the running call
    ret,           \* the value the call returned
    inclusive,     \* split_string_ranges: the inclusive flag
    ranges,        \* the ranges split_string_ranges returned
    opencc,        \* the OpenCC instance: [jieba, dictionary]
    dictionaries,  \* phrases_cut_convert: the ordered dictionary list
    ri,            \* phrases_cut_convert: index of the range being processed
    tokens,        \* process_range: the tokens not yet processed
    chunk_out,     \* process_range: its local output buffer `out`
    out,           \* phrases_cut_convert: the serial output buffer `out`
    phrase,        \* the token processed last
    emitted,       \* what was pushed for that token
    path,          \* the branch of the token loop taken for it
    jobs,          \* the parallel reduce: pieces of the range list
    config,        \* convert / convert_punctuation: the config string
    punctuation,   \* convert: the punctuation flag
    max_byte_count,\* find_max_utf8_length: the byte budget
    dict_map,      \* the DictMap being built
    json_data,     \* Dictionary::new: the decompressed document
    files,         \* Dictionary::from_dicts: the source text files
    args,          \* the arguments of a C entry point or of a CLI command
    CSTR,          \* opencc_jieba_version_string: the static pointer
    threads,       \* the threads inside opencc_jieba_version_string
    disk,            \* OfficeConverter: the files by path
    zip            \* OfficeConverter: the archive being read and written

callVars == <<pc, input, ret>>
splitVars == <<inclusive, ranges>>
convVars == <<opencc, dictionaries>>
tokenVars == <<ri, tokens, chunk_out, out, phrase, emitted, path>>
parVars == <<jobs>>
routeVars == <<config, punctuation>>
loadVars == <<max_byte_count, dict_map, json_data, files>>
toolVars == <<args, CSTR, threads, disk, zip>>
vars ==
    <<callVars, splitVars, convVars, tokenVars, parVars, routeVars, loadVars,
      toolVars>>

----------------------------------------------------------------------------
(* Scalars used by the inputs of the model (code points).                  *)

LatinA == 97           \* 'a', one byte
Comma == 44            \* ',', one byte, a delimiter
EAcute == 233          \* U+00E9, two bytes
Dragon == 40857        \* U+9F99, three bytes
FullComma == 65292     \* U+FF0C, three bytes, a delimiter
ExtB == 131072         \* U+20000, four bytes

(* char::len_utf8 *)
len_utf8(ch) ==
    IF ch < 128 THEN 1
    ELSE IF ch < 2048 THEN 2
    ELSE IF ch < 65536 THEN 3
    ELSE 4

(* lib.rs:54-58, the scalars of the literal collected into DELIMITER_SET *)
DELIMITER_SET ==
    {9, 10, 13, 32, 33, 34, 35, 36, 37, 38, 39, 40, 41, 42, 43, 44, 45, 46,
     47, 58, 59, 60, 61, 62, 63, 64, 91, 92, 93, 94, 95, 123, 124, 125, 126,
     8212, 8216, 8217, 8220, 8221, 8230, 12288, 12289, 12290, 12296, 12297,
     12298, 12299, 12300, 12301, 12302, 12303, 12304, 12305, 65040, 65041,
     65042, 65043, 65044, 65045, 65046, 65049, 65072, 65075, 65076, 65077,
     65078, 65079, 65080, 65081, 65082, 65083, 65084, 65085, 65086, 65087,
     65088, 65089, 65090, 65091, 65092, 65095, 65096, 65281, 65288, 65289,
     65292, 65293, 65294, 65295, 65306, 65307, 65309, 65311, 65339, 65340,
     65341, 65371, 65373, 65374}

(* All texts over an alphabet with at most n scalars. *)
Texts(alphabet, n) == UNION {[1..k -> alphabet] : k \in 0..n}

(* Sum of the UTF-8 lengths of text[lo..hi]; the recursion is balanced so
   that long texts do not nest deeply. *)
RECURSIVE Utf8Len(_, _, _)
Utf8Len(text, lo, hi) ==
    IF lo > hi THEN 0
    ELSE IF lo = hi THEN len_utf8(text[lo])
    ELSE LET mid == (lo + hi) \div 2
         IN  Utf8Len(text, lo, mid) + Utf8Len(text, mid + 1, hi)

(* str::len: the length of a text in bytes *)
str_len(text) == Utf8Len(text, 1, Len(text))

(* The byte offsets of the scalar boundaries of text[lo..hi], the first one
   being base: element i is the offset at which scalar lo+i-1 starts. *)
RECURSIVE BoundariesFrom(_, _, _, _)
BoundariesFrom(text, lo, hi, base) ==
    IF lo > hi THEN <<>>
    ELSE IF lo = hi THEN <<base>>
    ELSE LET mid == (lo + hi) \div 2
             left == BoundariesFrom(text, lo, mid, base)
         IN  left \o BoundariesFrom(text, mid + 1, hi,
                                    left[Len(left)] + len_utf8(text[mid]))

(* str::char_indices: the byte offset of every scalar, and text.len() last *)
char_boundaries(text) ==
    IF text = <<>> THEN <<0>>
    ELSE LET b == BoundariesFrom(text, 1, Len(text), 0)
         IN  Append(b, b[Len(b)] + len_utf8(text[Len(text)]))

(* str::is_char_boundary *)
is_char_boundary(text, b) ==
    \E i \in 1..(Len(text) + 1) : char_boundaries(text)[i] = b

(* The value standing for a panic of the Rust runtime. *)
Panic == <<-1>>

(* &text[start..end]: the scalars between two byte offsets; slicing off a
   scalar boundary panics. *)
str_slice(text, start, end) ==
    LET b == char_boundaries(text)
        n == Len(text) + 1
    IN  IF start <= end /\ (\E i \in 1..n : b[i] = start)
                        /\ (\E j \in 1..n : b[j] = end)
        THEN SubSeq(text, CHOOSE i \in 1..n : b[i] = start,
                          (CHOOSE j \in 1..n : b[j] = end) - 1)
        ELSE Panic

----------------------------------------------------------------------------
(* OpenCC::split_string_ranges, lib.rs:299-331                             *)

Range(start, end) == [start |-> start, end |-> end]

(* lib.rs:307-308 *)
ChEndBytewise(byte_idx, ch) == byte_idx + 1
ChEnd(byte_idx, ch) == byte_idx + len_utf8(ch)

(* lib.rs:310-320: the ranges pushed when the scan meets a delimiter *)
DelimiterPushAlwaysExclusive(incl, current_segment_start, byte_idx, ch_end) ==
    (IF current_segment_start < byte_idx
     THEN <<Range(current_segment_start, byte_idx)>> ELSE <<>>)
    \o <<Range(byte_idx, ch_end)>>
DelimiterPushUnguarded(incl, current_segment_start, byte_idx, ch_end) ==
    IF incl
    THEN <<Range(current_segment_start, ch_end)>>
    ELSE <<Range(current_segment_start, byte_idx), Range(byte_idx, ch_end)>>
DelimiterPush(incl, current_segment_start, byte_idx, ch_end) ==
    IF incl
    THEN <<Range(current_segment_start, ch_end)>>
    ELSE (IF current_segment_start < byte_idx
          THEN <<Range(current_segment_start, byte_idx)>> ELSE <<>>)
         \o <<Range(byte_idx, ch_end)>>

(* lib.rs:304-323: one iteration of the scan. st holds the ranges pushed so
   far, current_segment_start and the iterator's byte position. *)
SplitBody(st, incl, ch) ==
    LET byte_idx == st.byte_idx
        next_idx == byte_idx + len_utf8(ch)
    IN  IF ch \in DELIMITER_SET
        THEN LET ch_end == ChEnd(byte_idx, ch)
             IN  [ranges |-> st.ranges \o DelimiterPush(incl,
                                 st.current_segment_start, byte_idx, ch_end),
                  current_segment_start |-> ch_end,
                  byte_idx |-> next_idx]
        ELSE [st EXCEPT !.byte_idx = next_idx]

(* lib.rs:304: the scan over text[lo..hi] in order, the state threaded
   through; balanced recursion, the state after the left half computed
   (its byte position read) before the right half is scanned. *)
RECURSIVE SplitLoop(_, _, _, _, _)
SplitLoop(st, text, incl, lo, hi) ==
    IF lo > hi THEN st
    ELSE IF lo = hi THEN SplitBody(st, incl, text[lo])
    ELSE LET mid == (lo + hi) \div 2
             left == SplitLoop(st, text, incl, lo, mid)
         IN  IF left.byte_idx >= 0
             THEN SplitLoop(left, text, incl, mid + 1, hi)
             ELSE left

(* lib.rs:325-328 *)
TrailingPush(current_segment_start, text_len) ==
    IF current_segment_start < text_len
    THEN <<Range(current_segment_start, text_len)>> ELSE <<>>

split_string_ranges(text, incl) ==
    LET st == SplitLoop([ranges |-> <<>>, current_segment_start |-> 0,
                         byte_idx |-> 0], text, incl, 1, Len(text))
    IN  st.ranges \o TrailingPush(st.current_segment_start, str_len(text))

----------------------------------------------------------------------------
(* Values of the variables a specification does not use.                   *)

SplitIdle == inclusive = TRUE /\ ranges = <<>>
ConvIdle == opencc = [jieba |-> 1] /\ dictionaries = <<>>
TokenIdle ==
    /\ ri = 0 /\ tokens = <<>> /\ chunk_out = <<>> /\ out = <<>>
    /\ phrase = <<>> /\ emitted = <<>> /\ path = "none"
ParIdle == jobs = {}
RouteIdle == config = <<>> /\ punctuation = FALSE
LoadIdle ==
    /\ max_byte_count = 0 /\ dict_map = <<>> /\ json_data = <<>>
    /\ files = <<>>
ToolIdle ==
    /\ args = <<>> /\ CSTR = 0 /\ threads = <<>> /\ disk = <<>> /\ zip = <<>>

----------------------------------------------------------------------------
(* The splitter called on bounded texts.                                   *)

MaxSplitLen == 4
SplitAlphabet == {LatinA, Comma, EAcute, FullComma, ExtB}

SplitInit ==
    /\ pc = "split_call"
    /\ input \in Texts(SplitAlphabet, MaxSplitLen)
    /\ inclusive \in BOOLEAN
    /\ ranges = <<>>
    /\ ret = <<>>
    /\ ConvIdle /\ TokenIdle /\ ParIdle /\ RouteIdle /\ LoadIdle
    /\ ToolIdle

SplitCall ==
    /\ pc = "split_call"
    /\ ranges' = split_string_ranges(input, inclusive)
    /\ pc' = "split_done"
    /\ UNCHANGED <<input, ret, inclusive, convVars, tokenVars, parVars, routeVars,
                   loadVars,
                   toolVars>>

SplitNext == SplitCall

SpecSplit == SplitInit /\ [][SplitNext]_vars

(* Helpers of the splitter's properties. *)
IsDelim(c) == c \in DELIMITER_SET
DelimCount(text) == Cardinality({i \in 1..Len(text) : IsDelim(text[i])})
SliceOf(text, r) == str_slice(text, r.start, r.end)
RECURSIVE ConcatSlices(_, _, _)
ConcatSlices(text, rs, k) ==
    IF k > Len(rs) THEN <<>>
    ELSE SliceOf(text, rs[k]) \o ConcatSlices(text, rs, k + 1)

(* C5: the ranges of split_string_ranges are non-empty, increasing,
   contiguous, start at byte 0, end at text.len(), have every endpoint on a
   scalar boundary, and their slices concatenate to the text (both modes). *)
C5_RangesPartitionText ==
    pc = "split_done" =>
        /\ \A k \in 1..Len(ranges) : ranges[k].start < ranges[k].end
        /\ \A k \in 1..(Len(ranges) - 1) : ranges[k].end = ranges[k + 1].start
        /\ Len(ranges) > 0 =>
               /\ ranges[1].start = 0
               /\ ranges[Len(ranges)].end = str_len(input)
        /\ \A k \in 1..Len(ranges) :
               /\ is_char_boundary(input, ranges[k].start)
               /\ is_char_boundary(input, ranges[k].end)
        /\ ConcatSlices(input, ranges, 1) = input

C5_Witness ==
    /\ pc = "split_done"
    /\ Len(ranges) >= 3
    /\ \E k \in 1..Len(ranges) : ranges[k].end - ranges[k].start >= 5
    /\ \E i \in 1..Len(input) : IsDelim(input[i]) /\ len_utf8(input[i]) = 3

(* C6: in inclusive mode a range holds at most one delimiter, and then as
   its last scalar; every range but possibly the last ends with a delimiter;
   there are as many ranges as delimiters, plus one when the text does not
   end with a delimiter; the empty text gives no range, a text of only
   delimiters one range per delimiter. *)
C6_InclusiveShape ==
    (pc = "split_done" /\ inclusive) =>
        LET n == Len(ranges)
            endsWithDelim == input # <<>> /\ IsDelim(input[Len(input)])
        IN  /\ \A k \in 1..n :
                   LET s == SliceOf(input, ranges[k])
                   IN  /\ s # Panic
                       /\ \A i \in 1..(Len(s) - 1) : ~IsDelim(s[i])
                       /\ k < n => (s # <<>> /\ IsDelim(s[Len(s)]))
            /\ n = DelimCount(input)
                     + (IF input # <<>> /\ ~endsWithDelim THEN 1 ELSE 0)
            /\ input = <<>> => n = 0
            /\ (\A i \in 1..Len(input) : IsDelim(input[i])) =>
                   /\ n = Len(input)
                   /\ \A k \in 1..n : SliceOf(input, ranges[k]) = <<input[k]>>

C6_Witness ==
    /\ pc = "split_done" /\ inclusive
    /\ Len(ranges) = 3
    /\ DelimCount(input) = 2
    /\ ~IsDelim(input[Len(input)])
    /\ ~IsDelim(input[1])

(* C7: in exclusive mode every delimiter of the text is a one-scalar range
   of its own, no other range contains a delimiter, and consecutive, leading
   or trailing delimiters give no empty range. *)
C7_ExclusiveShape ==
    (pc = "split_done" /\ ~inclusive) =>
        LET b == char_boundaries(input)
        IN  /\ \A i \in 1..Len(input) :
                   IsDelim(input[i]) =>
                       \E k \in 1..Len(ranges) :
                           ranges[k] = Range(b[i], b[i + 1])
            /\ \A k \in 1..Len(ranges) :
                   LET s == SliceOf(input, ranges[k])
                   IN  /\ s # Panic
                       /\ s # <<>>
                       /\ (\E i \in 1..Len(s) : IsDelim(s[i])) => Len(s) = 1
            /\ Len(ranges) >= DelimCount(input)

C7_Witness ==
    /\ pc = "split_done" /\ ~inclusive
    /\ Len(input) = 4
    /\ IsDelim(input[1]) /\ IsDelim(input[2]) /\ ~IsDelim(input[3])
    /\ IsDelim(input[4])
    /\ Len(ranges) = 4

----------------------------------------------------------------------------
(* Dictionary tables.  A table (DictMap.map) is a function from keys to    *)
(* values, both texts.  The tables of the model are drawn from a family    *)
(* GenMap(h) over the scalars W0, W1, W2 and the delimiter FullComma:      *)
(*   bit 0 of h: the table has the key <<W0>>                              *)
(*   bit 1:      the table has the key <<W1>>                              *)
(*   bit 2:      the table has the phrase key <<W0, W1>>                   *)
(*   bit 3:      the values are the second variant                         *)
(*   bit 4:      values differ in length from their keys                   *)
(*   bit 5:      keys hold a delimiter: <<FullComma>>, <<W1, FullComma>>   *)

W0 == LatinA
W1 == Dragon
W2 == ExtB

Bit(h, k) == (h \div (2 ^ k)) % 2 = 1

EmptyMap == [key \in {} |-> <<>>]

GenMap(h) ==
    LET v == Bit(h, 3)
        short == Bit(h, 4)
        m0 == IF Bit(h, 0)
              THEN (<<W0>> :> (IF v THEN <<W2>> ELSE <<W1>>)) ELSE EmptyMap
        m1 == IF Bit(h, 1)
              THEN (<<W1>> :> (IF short THEN <<W0, W0>>
                               ELSE IF v THEN <<W0>> ELSE <<W2>>))
              ELSE EmptyMap
        m2 == IF Bit(h, 2)
              THEN (<<W0, W1>> :>
                      (IF short THEN (IF v THEN <<W2>> ELSE <<W1>>)
                       ELSE IF v THEN <<W2, W2>> ELSE <<W1, W0>>))
              ELSE EmptyMap
        m4 == IF short THEN (<<W2>> :> <<W0, W0>>) ELSE EmptyMap
        m5 == IF Bit(h, 5)
              THEN (<<FullComma>> :> <<W0>>) @@ (<<W1, FullComma>> :> <<W2>>)
              ELSE EmptyMap
    IN  m0 @@ m1 @@ m2 @@ m4 @@ m5

(* dictionary_lib/mod.rs:22-56: the sixteen tables of a Dictionary, in the
   order of the struct's fields. *)
DictNames ==
    <<"st_characters", "st_phrases", "ts_characters", "ts_phrases",
      "tw_phrases", "tw_phrases_rev", "tw_variants", "tw_variants_rev",
      "tw_variants_rev_phrases", "hk_variants", "hk_variants_rev",
      "hk_variants_rev_phrases", "jps_characters", "jps_phrases",
      "jp_variants", "jp_variants_rev">>

FieldIndex(name) == CHOOSE d \in 1..16 : DictNames[d] = name

(* The Dictionary of seed s: every field gets its own table of the family;
   seeds 1 and 3 (mod 4) give tables with length-changing values and with
   delimiter keys, the other seeds tables whose keys and values hold no
   delimiter and whose values are as long as their keys. *)
SeedTable(s, d) ==
    GenMap((((d - 1) * (2 * s + 1) + 5 * s) % 16)
           + (CASE s % 4 = 1 -> 16 [] s % 4 = 3 -> 32 [] OTHER -> 0))

Dictionary(s) ==
    [name \in {DictNames[d] : d \in 1..16} |-> SeedTable(s, FieldIndex(name))]

(* lib.rs:126-133, OpenCC::new: the segmenter and the dictionary. *)
OpenCC(s) == [jieba |-> s % 3, dictionary |-> Dictionary(s \div 3)]

----------------------------------------------------------------------------
(* The segmenter, an external collaborator (jieba_rs::Jieba::cut).  It is  *)
(* deterministic and its tokens concatenate to the chunk.  The handle jb   *)
(* selects one tokenisation: blocks of jb scalars from the left (single    *)
(* scalars without HMM); jb = 0 is the tokenisation into single scalars    *)
(* preceded by an empty token, which the converter guards against.         *)

Min(a, b) == IF a < b THEN a ELSE b

Cut(jb, chunk, hmm) ==
    LET k == IF jb = 0 \/ ~hmm THEN 1 ELSE jb
        n == Len(chunk)
        m == (n + k - 1) \div k
        toks == [j \in 1..m |-> SubSeq(chunk, (j - 1) * k + 1, Min(j * k, n))]
    IN  IF jb = 0 THEN <<<<>>>> \o toks ELSE toks

(* Concatenation of the texts ss[lo..hi] in order (String::push_str in a
   loop); balanced recursion. *)
RECURSIVE Concat(_, _, _)
Concat(ss, lo, hi) ==
    IF lo > hi THEN <<>>
    ELSE IF lo = hi THEN ss[lo]
    ELSE LET mid == (lo + hi) \div 2
         IN  Concat(ss, lo, mid) \o Concat(ss, mid + 1, hi)

----------------------------------------------------------------------------
(* OpenCC::phrases_cut_convert and OpenCC::convert_by_char                 *)

None == [some |-> FALSE]
Some(v) == [some |-> TRUE, val |-> v]

(* HashMap::get *)
DictGet(dict, key) == IF key \in DOMAIN dict THEN Some(dict[key]) ELSE None

(* lib.rs:275-280: the first dictionary of the list that has the key *)
CharLookupLast(dicts, key) ==
    IF \E i \in 1..Len(dicts) : DictGet(dicts[i], key).some
    THEN DictGet(dicts[CHOOSE i \in 1..Len(dicts) :
                         /\ DictGet(dicts[i], key).some
                         /\ \A j \in (i + 1)..Len(dicts) :
                                ~DictGet(dicts[j], key).some],
                 key)
    ELSE None
CharLookup(dicts, key) ==
    IF \E i \in 1..Len(dicts) : DictGet(dicts[i], key).some
    THEN DictGet(dicts[CHOOSE i \in 1..Len(dicts) :
                         /\ DictGet(dicts[i], key).some
                         /\ \A j \in 1..(i - 1) : ~DictGet(dicts[j], key).some],
                 key)
    ELSE None

(* lib.rs:271-286: what convert_by_char pushes for one scalar *)
CharEmitDropMissing(ch, dicts) ==
    LET replaced == CharLookup(dicts, <<ch>>)
    IN  IF replaced.some THEN replaced.val ELSE <<>>
CharEmit(ch, dicts) ==
    LET replaced == CharLookup(dicts, <<ch>>)
    IN  IF replaced.some THEN replaced.val ELSE <<ch>>

(* lib.rs:266-287: the text convert_by_char appends to `out` *)
convert_by_char(s, dicts) ==
    Concat([i \in 1..Len(s) |-> CharEmit(s[i], dicts)], 1, Len(s))

(* lib.rs:196-198: exactly one scalar, and it is in DELIMITER_SET *)
IsSingleDelimiter(tok) == Len(tok) = 1 /\ tok[1] \in DELIMITER_SET

(* lib.rs:205-210: precedence lookup of the whole token *)
PhraseLookupLast(dicts, tok) ==
    IF \E i \in 1..Len(dicts) : DictGet(dicts[i], tok).some
    THEN DictGet(dicts[CHOOSE i \in 1..Len(dicts) :
                         /\ DictGet(dicts[i], tok).some
                         /\ \A j \in (i + 1)..Len(dicts) :
                                ~DictGet(dicts[j], tok).some],
                 tok)
    ELSE None
PhraseLookup(dicts, tok) ==
    IF \E i \in 1..Len(dicts) : DictGet(dicts[i], tok).some
    THEN DictGet(dicts[CHOOSE i \in 1..Len(dicts) :
                         /\ DictGet(dicts[i], tok).some
                         /\ \A j \in 1..(i - 1) : ~DictGet(dicts[j], tok).some],
                 tok)
    ELSE None

(* lib.rs:189-214: the branch of the token loop a token takes *)
TokenPathDictFirst(tok, dicts) ==
    IF tok = <<>> THEN "empty"
    ELSE IF PhraseLookup(dicts, tok).some THEN "phrase"
    ELSE IF IsSingleDelimiter(tok) THEN "delimiter"
    ELSE "fallback"
TokenPath(tok, dicts) ==
    IF tok = <<>> THEN "empty"
    ELSE IF IsSingleDelimiter(tok) THEN "delimiter"
    ELSE IF PhraseLookup(dicts, tok).some THEN "phrase"
    ELSE "fallback"

(* lib.rs:189-214: what the token loop pushes to `out` for one token *)
EmitTokenDropDelimiter(tok, dicts) ==
    CASE TokenPath(tok, dicts) = "empty" -> <<>>
      [] TokenPath(tok, dicts) = "delimiter" -> <<>>
      [] TokenPath(tok, dicts) = "phrase" -> PhraseLookup(dicts, tok).val
      [] OTHER -> convert_by_char(tok, dicts)
EmitToken(tok, dicts) ==
    CASE TokenPath(tok, dicts) = "empty" -> <<>>
      [] TokenPath(tok, dicts) = "delimiter" -> tok
      [] TokenPath(tok, dicts) = "phrase" -> PhraseLookup(dicts, tok).val
      [] OTHER -> convert_by_char(tok, dicts)

(* lib.rs:182-217: the closure process_range *)
process_range(self, text, range, dicts, hmm) ==
    LET chunk == str_slice(text, range.start, range.end)
        toks == Cut(self.jieba, chunk, hmm)
    IN  Concat([j \in 1..Len(toks) |-> EmitToken(toks[j], dicts)],
               1, Len(toks))

PARALLEL_THRESHOLD == 1000

(* lib.rs:223-226: the reduce operator, and String::new its identity *)
ReduceOpSwapped(a, b) == b \o a
ReduceOp(a, b) == a \o b

(* lib.rs:220-226: map and reduce over the indexed range list; the pieces
   lo..hi are reduced pairwise, each leaf starting from the identity. *)
RECURSIVE ParReduce(_, _, _)
ParReduce(frags, lo, hi) ==
    IF lo > hi THEN <<>>
    ELSE IF lo = hi THEN ReduceOp(<<>>, frags[lo])
    ELSE LET mid == (lo + hi) \div 2
         IN  ReduceOp(ParReduce(frags, lo, mid), ParReduce(frags, mid + 1, hi))

(* lib.rs:228-232: the serial loop over the ranges *)
RECURSIVE SerialLoop(_, _, _)
SerialLoop(acc, frags, k) ==
    IF k > Len(frags) THEN acc
    ELSE SerialLoop(acc \o frags[k], frags, k + 1)

(* lib.rs:173-234 *)
phrases_cut_convert(self, text, dicts, hmm) ==
    LET rs == split_string_ranges(text, TRUE)
        use_parallel == str_len(text) >= PARALLEL_THRESHOLD
        frags == [k \in 1..Len(rs) |->
                     process_range(self, text, rs[k], dicts, hmm)]
    IN  IF use_parallel THEN ParReduce(frags, 1, Len(rs))
        ELSE SerialLoop(<<>>, frags, 1)

----------------------------------------------------------------------------
(* phrases_cut_convert on a short input (the serial regime), one token at  *)
(* a time.                                                                 *)

MaxTokText == 3
MaxDicts == 2
MaxTokenLen == 2
TokAlphabet == {W0, W1, FullComma}
TokPool == {GenMap(h) : h \in {3, 4, 12, 37}}

DictLists(pool, n) == UNION {[1..k -> pool] : k \in 1..n}

TokInit ==
    /\ pc = "conv_call"
    /\ input \in Texts(TokAlphabet, MaxTokText)
    /\ opencc \in {[jieba |-> m] : m \in 0..MaxTokenLen}
    /\ dictionaries \in DictLists(TokPool, MaxDicts)
    /\ ret = <<>>
    /\ SplitIdle /\ TokenIdle /\ ParIdle /\ RouteIdle /\ LoadIdle
    /\ ToolIdle

(* lib.rs:179-180, 228 *)
ConvStart ==
    /\ pc = "conv_call"
    /\ str_len(input) < PARALLEL_THRESHOLD
    /\ ranges' = split_string_ranges(input, TRUE)
    /\ out' = <<>>
    /\ ri' = 1
    /\ pc' = "conv_range"
    /\ UNCHANGED <<input, ret, inclusive, convVars, tokens, chunk_out,
                   phrase, emitted, path, parVars, routeVars,
                   loadVars,
                   toolVars>>

(* lib.rs:183-187 *)
RangeBegin ==
    /\ pc = "conv_range"
    /\ ri <= Len(ranges)
    /\ tokens' = Cut(opencc.jieba,
                     str_slice(input, ranges[ri].start, ranges[ri].end), TRUE)
    /\ chunk_out' = <<>>
    /\ pc' = "conv_tokens"
    /\ UNCHANGED <<input, ret, splitVars, convVars, ri, out, phrase, emitted,
                   path, parVars, routeVars,
                   loadVars,
                   toolVars>>

(* lib.rs:189-214: one iteration of the token loop, on the branch b *)
TokenStep(b) ==
    /\ pc = "conv_tokens"
    /\ tokens # <<>>
    /\ TokenPath(Head(tokens), dictionaries) = b
    /\ phrase' = Head(tokens)
    /\ emitted' = EmitToken(Head(tokens), dictionaries)
    /\ chunk_out' = chunk_out \o emitted'
    /\ path' = b
    /\ tokens' = Tail(tokens)
    /\ UNCHANGED <<callVars, splitVars, convVars, ri, out, parVars, routeVars,
                   loadVars,
                   toolVars>>

(* lib.rs:191-193: an empty token is skipped *)
TokenEmpty ==
    /\ tokens # <<>> /\ Head(tokens) = <<>>
    /\ TokenStep("empty")

(* lib.rs:196-202: the delimiter fast path *)
TokenDelimiter ==
    /\ tokens # <<>> /\ IsSingleDelimiter(Head(tokens))
    /\ TokenStep("delimiter")

(* lib.rs:205-210: the whole token is a key of some dictionary *)
TokenPhrase ==
    /\ tokens # <<>> /\ PhraseLookup(dictionaries, Head(tokens)).some
    /\ TokenStep("phrase")

(* lib.rs:213: no dictionary has the token *)
TokenFallback ==
    /\ tokens # <<>> /\ ~PhraseLookup(dictionaries, Head(tokens)).some
    /\ TokenStep("fallback")

(* lib.rs:216, 230 *)
RangeEnd ==
    /\ pc = "conv_tokens"
    /\ tokens = <<>>
    /\ out' = out \o chunk_out
    /\ ri' = ri + 1
    /\ pc' = "conv_range"
    /\ UNCHANGED <<input, ret, splitVars, convVars, tokens, chunk_out, phrase,
                   emitted, path, parVars, routeVars,
                   loadVars,
                   toolVars>>

(* lib.rs:232 *)
ConvReturn ==
    /\ pc = "conv_range"
    /\ ri > Len(ranges)
    /\ ret' = out
    /\ pc' = "conv_done"
    /\ UNCHANGED <<input, splitVars, convVars, tokenVars, parVars, routeVars,
                   loadVars,
                   toolVars>>

TokNext ==
    \/ ConvStart
    \/ RangeBegin
    \/ TokenEmpty
    \/ TokenDelimiter
    \/ TokenPhrase
    \/ TokenFallback
    \/ RangeEnd
    \/ ConvReturn

SpecTokens == TokInit /\ [][TokNext]_vars

(* The token loop returns what the function computes. *)
TokensAgreeWithFunction ==
    pc = "conv_done" =>
        ret = phrases_cut_convert(opencc, input, dictionaries, TRUE)

(* Helpers of the claims about a processed token. *)
TokenProcessed == path \in {"delimiter", "phrase", "fallback"}
HasEntry(tok) == \E i \in 1..Len(dictionaries) : tok \in DOMAIN dictionaries[i]
FirstEntry(tok) ==
    dictionaries[CHOOSE i \in 1..Len(dictionaries) :
                     /\ tok \in DOMAIN dictionaries[i]
                     /\ \A j \in 1..(i - 1) : tok \notin DOMAIN dictionaries[j]
                ][tok]

(* C1 as stated: for every token the segmenter returned, if some dictionary
   of the list has an entry for it, the text emitted for the token is the
   value of the first such dictionary. *)
C1_Original ==
    (TokenProcessed /\ HasEntry(phrase)) => emitted = FirstEntry(phrase)

(* C1 for the tokens that are not a single delimiter scalar (such a token
   is emitted verbatim before any lookup, lib.rs:196-202): the text
   emitted is the whole value of the first dictionary that has the token,
   whatever single-scalar entries the dictionaries hold. *)
C1_PhrasePriority ==
    (TokenProcessed /\ HasEntry(phrase) /\ ~IsSingleDelimiter(phrase)) =>
        /\ emitted = FirstEntry(phrase)
        /\ path = "phrase"

C1_Witness ==
    /\ path = "phrase"
    /\ Len(dictionaries) = 2
    /\ phrase = <<W0, W1>>
    /\ phrase \notin DOMAIN dictionaries[1]
    /\ <<W0>> \in DOMAIN dictionaries[1]
    /\ <<W1>> \in DOMAIN dictionaries[1]
    /\ emitted = dictionaries[2][phrase]
    /\ emitted # convert_by_char(phrase, dictionaries)

----------------------------------------------------------------------------
(* phrases_cut_convert around PARALLEL_THRESHOLD.  The input is a short    *)
(* head followed by a filler of FillerLen four-byte scalars, so that inputs *)
(* just below and just above the threshold both occur.  In the parallel    *)
(* regime (lib.rs:219-226) the indexed range list is a set of jobs over    *)
(* index intervals: a job is split at any index, a worker folds a job's    *)
(* ranges from the identity, and two finished neighbours are reduced, in   *)
(* any order.                                                              *)

FillerLen == 249
MaxParHead == 3
ParAlphabet == {W0, W1, FullComma}
ParPool == {<<GenMap(7)>>, <<GenMap(18), GenMap(13)>>}
ParModes == {0, 2}

Filler == [i \in 1..FillerLen |-> ExtB]

Job(lo, hi, done, val) == [lo |-> lo, hi |-> hi, done |-> done, val |-> val]

(* lib.rs:221-226: a worker maps the ranges lo..hi of its job in index order
   and folds them with the reduce operator, starting from String::new() *)
RECURSIVE LeafFold(_, _, _, _, _, _, _)
LeafFold(acc, self, text, rs, dicts, lo, hi) ==
    IF lo > hi THEN acc
    ELSE LeafFold(ReduceOp(acc, process_range(self, text, rs[lo], dicts, TRUE)),
                  self, text, rs, dicts, lo + 1, hi)

ParInit ==
    /\ pc = "conv_call"
    /\ \E head \in Texts(ParAlphabet, MaxParHead) : input = head \o Filler
    /\ opencc \in {[jieba |-> m] : m \in ParModes}
    /\ dictionaries \in ParPool
    /\ ret = <<>>
    /\ SplitIdle /\ TokenIdle /\ ParIdle /\ RouteIdle /\ LoadIdle
    /\ ToolIdle

(* lib.rs:179-180, 219-220: use_parallel holds, the ranges go to the pool *)
ParStart ==
    /\ pc = "conv_call"
    /\ str_len(input) >= PARALLEL_THRESHOLD
    /\ ranges' = split_string_ranges(input, TRUE)
    /\ jobs' = {Job(1, Len(ranges'), FALSE, <<>>)}
    /\ pc' = "par_run"
    /\ UNCHANGED <<input, ret, inclusive, convVars, tokenVars, routeVars,
                   loadVars,
                   toolVars>>

(* par_iter: a job of several ranges is split in two *)
ParSplit ==
    /\ pc = "par_run"
    /\ \E j \in jobs : \E mid \in j.lo..(j.hi - 1) :
           /\ ~j.done
           /\ jobs' = (jobs \ {j}) \cup {Job(j.lo, mid, FALSE, <<>>),
                                         Job(mid + 1, j.hi, FALSE, <<>>)}
    /\ UNCHANGED <<callVars, splitVars, convVars, tokenVars, routeVars,
                   loadVars,
                   toolVars>>

(* lib.rs:221-222: a worker processes the ranges of its job *)
ParLeaf ==
    /\ pc = "par_run"
    /\ \E j \in jobs :
           /\ ~j.done
           /\ jobs' = (jobs \ {j}) \cup
                  {Job(j.lo, j.hi, TRUE,
                       LeafFold(<<>>, opencc, input, ranges, dictionaries,
                                j.lo, j.hi))}
    /\ UNCHANGED <<callVars, splitVars, convVars, tokenVars, routeVars,
                   loadVars,
                   toolVars>>

(* lib.rs:223-226: two finished neighbours are reduced, left then right *)
ParJoin ==
    /\ pc = "par_run"
    /\ \E a \in jobs : \E b \in jobs :
           /\ a.done /\ b.done /\ a.hi + 1 = b.lo
           /\ jobs' = (jobs \ {a, b}) \cup
                  {Job(a.lo, b.hi, TRUE, ReduceOp(a.val, b.val))}
    /\ UNCHANGED <<callVars, splitVars, convVars, tokenVars, routeVars,
                   loadVars,
                   toolVars>>

(* lib.rs:219-226: the value of the reduce is returned *)
ParReturn ==
    /\ pc = "par_run"
    /\ \E j \in jobs :
           /\ jobs = {j} /\ j.done
           /\ ret' = j.val
    /\ pc' = "conv_done"
    /\ UNCHANGED <<input, splitVars, convVars, tokenVars, parVars, routeVars,
                   loadVars,
                   toolVars>>

(* lib.rs:227-233: below the threshold the ranges are processed in a loop *)
SerialRun ==
    /\ pc = "conv_call"
    /\ str_len(input) < PARALLEL_THRESHOLD
    /\ ranges' = split_string_ranges(input, TRUE)
    /\ ret' = SerialLoop(<<>>,
                         [k \in 1..Len(ranges') |->
                              process_range(opencc, input, ranges'[k],
                                            dictionaries, TRUE)], 1)
    /\ pc' = "conv_done"
    /\ UNCHANGED <<input, inclusive, convVars, tokenVars, parVars, routeVars,
                   loadVars,
                   toolVars>>

ParNext ==
    \/ ParStart
    \/ ParSplit
    \/ ParLeaf
    \/ ParJoin
    \/ ParReturn
    \/ SerialRun

SpecPar == ParInit /\ [][ParNext]_vars

(* The ranges of the input processed serially in index order. *)
SerialResult ==
    SerialLoop(<<>>,
               [k \in 1..Len(ranges) |->
                    process_range(opencc, input, ranges[k], dictionaries,
                                  TRUE)], 1)

(* C2: when the input has at least PARALLEL_THRESHOLD bytes, the value
   returned after the workers have processed the ranges, whatever the
   splitting of the range list, the order in which workers finish and the
   grouping of the reduce, is the value the serial loop gives for the same
   ranges in index order. *)
C2_ParallelEqualsSerial ==
    (pc = "conv_done" /\ str_len(input) >= PARALLEL_THRESHOLD) =>
        /\ ret = SerialResult
        /\ ret = phrases_cut_convert(opencc, input, dictionaries, TRUE)

C2_Witness ==
    /\ pc = "conv_done"
    /\ str_len(input) >= PARALLEL_THRESHOLD
    /\ Len(ranges) >= 3
    /\ ret = SerialResult
    /\ ret # input
    /\ \E j \in jobs : j.lo = 1 /\ j.hi = Len(ranges) /\ j.done

----------------------------------------------------------------------------
(* OpenCC::convert_punctuation, lib.rs:62-74 and 872-885                   *)

CurlyDoubleOpen == 8220
CurlyDoubleClose == 8221
CurlySingleOpen == 8216
CurlySingleClose == 8217
CornerOpen == 12300
CornerClose == 12301
WhiteCornerOpen == 12302
WhiteCornerClose == 12303
LowerS == 115
LowerT == 116

(* lib.rs:62-63: the character classes of the two regexes *)
S2T_REGEX ==
    {CurlyDoubleOpen, CurlyDoubleClose, CurlySingleOpen, CurlySingleClose}
T2S_REGEX == {CornerOpen, CornerClose, WhiteCornerOpen, WhiteCornerClose}

(* lib.rs:65-74 *)
S2T_MAPMispaired ==
    (CurlyDoubleOpen :> CornerClose) @@ (CurlyDoubleClose :> CornerOpen)
    @@ (CurlySingleOpen :> WhiteCornerOpen)
    @@ (CurlySingleClose :> WhiteCornerClose)
S2T_MAP ==
    (CurlyDoubleOpen :> CornerOpen) @@ (CurlyDoubleClose :> CornerClose)
    @@ (CurlySingleOpen :> WhiteCornerOpen)
    @@ (CurlySingleClose :> WhiteCornerClose)
T2S_MAP ==
    (CornerOpen :> CurlyDoubleOpen) @@ (CornerClose :> CurlyDoubleClose)
    @@ (WhiteCornerOpen :> CurlySingleOpen)
    @@ (WhiteCornerClose :> CurlySingleClose)

(* str::starts_with(char) *)
starts_with(text, ch) == Len(text) >= 1 /\ text[1] = ch

(* lib.rs:880-883: replace_all rewrites each match of the regex (one scalar
   of the class) by mapping.get(&ch).copied().unwrap_or(ch) and copies the
   scalars that do not match *)
PunctReplace(ch, regex, mapping) ==
    IF ch \in regex
    THEN (IF ch \in DOMAIN mapping THEN mapping[ch] ELSE ch)
    ELSE ch

(* lib.rs:872-885 *)
convert_punctuation(text, mode) ==
    LET s2t_mode == starts_with(mode, LowerS)
        regex == IF s2t_mode THEN S2T_REGEX ELSE T2S_REGEX
        mapping == IF s2t_mode THEN S2T_MAP ELSE T2S_MAP
    IN  [i \in 1..Len(text) |-> PunctReplace(text[i], regex, mapping)]

----------------------------------------------------------------------------
(* convert_punctuation called on bounded texts with a mode from a pool.    *)

MaxPunctText == 2
PunctAlphabet == S2T_REGEX \cup T2S_REGEX \cup {LatinA, FullComma}
PunctModes ==
    {<<LowerS>>, <<LowerT>>, <<>>, <<LowerS, LowerT>>, <<LowerT, LowerS>>,
     <<83>>}

PunctInit ==
    /\ pc = "punct_call"
    /\ input \in Texts(PunctAlphabet, MaxPunctText)
    /\ config \in PunctModes
    /\ punctuation = TRUE
    /\ ret = <<>>
    /\ SplitIdle /\ ConvIdle /\ TokenIdle /\ ParIdle /\ LoadIdle
    /\ ToolIdle

PunctCall ==
    /\ pc = "punct_call"
    /\ ret' = convert_punctuation(input, config)
    /\ pc' = "punct_done"
    /\ UNCHANGED <<input, splitVars, convVars, tokenVars, parVars, routeVars,
                   loadVars,
                   toolVars>>

PunctNext == PunctCall

SpecPunct == PunctInit /\ [][PunctNext]_vars

(* The scalar the punctuation mapper is to give for ch: with a mode that
   starts with s the four curly quotes become corner brackets, with any
   other mode the four corner brackets become curly quotes. *)
PunctExpected(ch, mode) ==
    IF mode # <<>> /\ Head(mode) = LowerS
    THEN CASE ch = CurlyDoubleOpen -> CornerOpen
           [] ch = CurlyDoubleClose -> CornerClose
           [] ch = CurlySingleOpen -> WhiteCornerOpen
           [] ch = CurlySingleClose -> WhiteCornerClose
           [] OTHER -> ch
    ELSE CASE ch = CornerOpen -> CurlyDoubleOpen
           [] ch = CornerClose -> CurlyDoubleClose
           [] ch = WhiteCornerOpen -> CurlySingleOpen
           [] ch = WhiteCornerClose -> CurlySingleClose
           [] OTHER -> ch

(* C9: convert_punctuation keeps the number of scalars and gives, position
   by position, the corner bracket of each curly quote when the mode starts
   with s and the curly quote of each corner bracket with any other mode;
   every other scalar, the quotes of the opposite family included, is
   unchanged. *)
C9_PunctuationMap ==
    pc = "punct_done" =>
        /\ Len(ret) = Len(input)
        /\ \A i \in 1..Len(input) : ret[i] = PunctExpected(input[i], config)

C9_Witness ==
    /\ pc = "punct_done"
    /\ config = <<LowerS, LowerT>>
    /\ input = <<CurlyDoubleOpen, CornerClose>>
    /\ ret = <<CornerOpen, CornerClose>>

----------------------------------------------------------------------------
(* The conversion methods, lib.rs:424-723, and OpenCC::convert, 790-810    *)

(* lib.rs:424-432 *)
s2t(self, text, punct) ==
    LET dict_refs == <<self.dictionary.st_phrases,
            self.dictionary.st_characters>>
        result ==
            phrases_cut_convert(self, text, dict_refs, TRUE)
    IN  IF punct THEN convert_punctuation(result, <<LowerS>>)
        ELSE result

(* lib.rs:454-462 *)
t2s(self, text, punct) ==
    LET dict_refs == <<self.dictionary.ts_phrases,
            self.dictionary.ts_characters>>
        result ==
            phrases_cut_convert(self, text, dict_refs, TRUE)
    IN  IF punct THEN convert_punctuation(result, <<LowerT>>)
        ELSE result

(* lib.rs:480-493 *)
s2tw(self, text, punct) ==
    LET dict_refs == <<self.dictionary.st_phrases,
            self.dictionary.st_characters>>
        dict_refs_round_2 == <<self.dictionary.tw_variants>>
        result ==
            phrases_cut_convert(self, phrases_cut_convert(self, text,
                    dict_refs, TRUE), dict_refs_round_2, TRUE)
    IN  IF punct THEN convert_punctuation(result, <<LowerS>>)
        ELSE result

(* lib.rs:514-530 *)
tw2s(self, text, punct) ==
    LET dict_refs == <<self.dictionary.tw_variants_rev,
            self.dictionary.tw_variants_rev_phrases>>
        dict_refs_round_2 == <<self.dictionary.ts_phrases,
                self.dictionary.ts_characters>>
        result ==
            phrases_cut_convert(self, phrases_cut_convert(self, text,
                    dict_refs, TRUE), dict_refs_round_2, TRUE)
    IN  IF punct THEN convert_punctuation(result, <<LowerT>>)
        ELSE result

(* lib.rs:549-567 *)
s2twp(self, text, punct) ==
    LET dict_refs == <<self.dictionary.st_phrases,
            self.dictionary.st_characters>>
        dict_refs_round_2 == <<self.dictionary.tw_phrases>>
        dict_refs_round_3 == <<self.dictionary.tw_variants>>
        result ==
            phrases_cut_convert(self, phrases_cut_convert(self,
                    phrases_cut_convert(self, text, dict_refs, TRUE),
                            dict_refs_round_2, TRUE), dict_refs_round_3, TRUE)
    IN  IF punct THEN convert_punctuation(result, <<LowerS>>)
        ELSE result

(* lib.rs:590-611 *)
tw2sp(self, text, punct) ==
    LET dict_refs == <<self.dictionary.tw_variants_rev,
            self.dictionary.tw_variants_rev_phrases>>
        dict_refs_round_2 == <<self.dictionary.tw_phrases_rev>>
        dict_refs_round_3 == <<self.dictionary.ts_phrases,
                self.dictionary.ts_characters>>
        result ==
            phrases_cut_convert(self, phrases_cut_convert(self,
                    phrases_cut_convert(self, text, dict_refs, TRUE),
                            dict_refs_round_2, TRUE), dict_refs_round_3, TRUE)
    IN  IF punct THEN convert_punctuation(result, <<LowerT>>)
        ELSE result

(* lib.rs:629-642 *)
s2hk(self, text, punct) ==
    LET dict_refs == <<self.dictionary.st_phrases,
            self.dictionary.st_characters>>
        dict_refs_round_2 == <<self.dictionary.hk_variants>>
        result ==
            phrases_cut_convert(self, phrases_cut_convert(self, text,
                    dict_refs, TRUE), dict_refs_round_2, TRUE)
    IN  IF punct THEN convert_punctuation(result, <<LowerS>>)
        ELSE result

(* lib.rs:644-660 *)
hk2sVariantsFirst(self, text, punct) ==
    LET dict_refs == <<self.dictionary.hk_variants_rev,
            self.dictionary.hk_variants_rev_phrases>>
        dict_refs_round_2 == <<self.dictionary.ts_phrases,
                self.dictionary.ts_characters>>
        result ==
            phrases_cut_convert(self, phrases_cut_convert(self, text,
                    dict_refs, TRUE), dict_refs_round_2, TRUE)
    IN  IF punct THEN convert_punctuation(result, <<LowerT>>)
        ELSE result
hk2s(self, text, punct) ==
    LET dict_refs == <<self.dictionary.hk_variants_rev_phrases,
            self.dictionary.hk_variants_rev>>
        dict_refs_round_2 == <<self.dictionary.ts_phrases,
                self.dictionary.ts_characters>>
        result ==
            phrases_cut_convert(self, phrases_cut_convert(self, text,
                    dict_refs, TRUE), dict_refs_round_2, TRUE)
    IN  IF punct THEN convert_punctuation(result, <<LowerT>>)
        ELSE result

(* lib.rs:662-665 *)
t2twWithPunctuation(self, text) ==
    LET dict_refs == <<self.dictionary.tw_variants>>
    IN  convert_punctuation(
            phrases_cut_convert(self, text, dict_refs, TRUE), <<LowerT>>)
t2tw(self, text) ==
    LET dict_refs == <<self.dictionary.tw_variants>>
    IN  phrases_cut_convert(self, text, dict_refs, TRUE)

(* lib.rs:667-675 *)
t2twp(self, text) ==
    LET dict_refs == <<self.dictionary.tw_phrases>>
        dict_refs_round_2 == <<self.dictionary.tw_variants>>
    IN  phrases_cut_convert(self, phrases_cut_convert(self, text, dict_refs,
            TRUE), dict_refs_round_2, TRUE)

(* lib.rs:677-683 *)
tw2t(self, text) ==
    LET dict_refs == <<self.dictionary.tw_variants_rev,
            self.dictionary.tw_variants_rev_phrases>>
    IN  phrases_cut_convert(self, text, dict_refs, TRUE)

(* lib.rs:685-696 *)
tw2tp(self, text) ==
    LET dict_refs == <<self.dictionary.tw_variants_rev,
            self.dictionary.tw_variants_rev_phrases>>
        dict_refs_round_2 == <<self.dictionary.tw_phrases_rev>>
    IN  phrases_cut_convert(self, phrases_cut_convert(self, text, dict_refs,
            TRUE), dict_refs_round_2, TRUE)

(* lib.rs:698-701 *)
t2hk(self, text) ==
    LET dict_refs == <<self.dictionary.hk_variants>>
    IN  phrases_cut_convert(self, text, dict_refs, TRUE)

(* lib.rs:703-709 *)
hk2t(self, text) ==
    LET dict_refs == <<self.dictionary.hk_variants_rev_phrases,
            self.dictionary.hk_variants_rev>>
    IN  phrases_cut_convert(self, text, dict_refs, TRUE)

(* lib.rs:711-714 *)
t2jp(self, text) ==
    LET dict_refs == <<self.dictionary.jp_variants>>
    IN  phrases_cut_convert(self, text, dict_refs, TRUE)

(* lib.rs:716-723 *)
jp2t(self, text) ==
    LET dict_refs == <<self.dictionary.jps_phrases,
            self.dictionary.jps_characters, self.dictionary.jp_variants_rev>>
    IN  phrases_cut_convert(self, text, dict_refs, TRUE)

(* lib.rs:792-807: the configuration names of the match arms *)
Name_s2t == <<115, 50, 116>>
Name_s2tw == <<115, 50, 116, 119>>
Name_s2twp == <<115, 50, 116, 119, 112>>
Name_s2hk == <<115, 50, 104, 107>>
Name_t2s == <<116, 50, 115>>
Name_t2tw == <<116, 50, 116, 119>>
Name_t2twp == <<116, 50, 116, 119, 112>>
Name_t2hk == <<116, 50, 104, 107>>
Name_tw2s == <<116, 119, 50, 115>>
Name_tw2sp == <<116, 119, 50, 115, 112>>
Name_tw2t == <<116, 119, 50, 116>>
Name_tw2tp == <<116, 119, 50, 116, 112>>
Name_hk2s == <<104, 107, 50, 115>>
Name_hk2t == <<104, 107, 50, 116>>
Name_jp2t == <<106, 112, 50, 116>>
Name_t2jp == <<116, 50, 106, 112>>

ConfigNames ==
    {Name_s2t, Name_s2tw, Name_s2twp, Name_s2hk,
     Name_t2s, Name_t2tw, Name_t2twp, Name_t2hk,
     Name_tw2s, Name_tw2sp, Name_tw2t, Name_tw2tp,
     Name_hk2s, Name_hk2t, Name_jp2t, Name_t2jp}

(* str::to_lowercase on the scalars of the configuration strings of the
   model: the ASCII capitals, and the Kelvin sign U+212A whose lowercase is
   k; the other scalars used are their own lowercase. *)
char_to_lowercase(ch) ==
    IF ch >= 65 /\ ch <= 90 THEN ch + 32
    ELSE IF ch = 8490 THEN 107
    ELSE ch

to_lowercase(text) == [i \in 1..Len(text) |-> char_to_lowercase(text[i])]

(* lib.rs:808: format!("Invalid config: {}", config) *)
InvalidConfigPrefix ==
    <<73, 110, 118, 97, 108, 105, 100, 32, 99, 111, 110, 102, 105, 103, 58, 32>>

InvalidConfigLowered(cfg) ==
    InvalidConfigPrefix \o to_lowercase(cfg)
InvalidConfig(cfg) == InvalidConfigPrefix \o cfg

(* lib.rs:790-810 *)
convert(self, text, cfg, punct) ==
    LET lowered == to_lowercase(cfg)
    IN  CASE lowered = Name_s2t -> s2t(self, text, punct)
          [] lowered = Name_s2tw -> s2tw(self, text, punct)
          [] lowered = Name_s2twp -> s2twp(self, text, punct)
          [] lowered = Name_s2hk -> s2hk(self, text, punct)
          [] lowered = Name_t2s -> t2s(self, text, punct)
          [] lowered = Name_t2tw -> t2tw(self, text)
          [] lowered = Name_t2twp -> t2twp(self, text)
          [] lowered = Name_t2hk -> t2hk(self, text)
          [] lowered = Name_tw2s -> tw2s(self, text, punct)
          [] lowered = Name_tw2sp -> tw2sp(self, text, punct)
          [] lowered = Name_tw2t -> tw2t(self, text)
          [] lowered = Name_tw2tp -> tw2tp(self, text)
          [] lowered = Name_hk2s -> hk2s(self, text, punct)
          [] lowered = Name_hk2t -> hk2t(self, text)
          [] lowered = Name_jp2t -> jp2t(self, text)
          [] lowered = Name_t2jp -> t2jp(self, text)
          [] OTHER -> InvalidConfig(cfg)

----------------------------------------------------------------------------
(* OpenCC::convert called on bounded inputs: every configuration name,     *)
(* names in other letter cases, and strings that are no name.              *)

MaxConvText == 2
MaxSeed == 11
ConvAlphabet == {W0, W1, FullComma, CurlyDoubleOpen, CornerOpen}

(* "S2T", "Hk2S", "T2TWP", "hK2s" with the Kelvin sign, "Unknown", "s2",
   "s2t " with a trailing space, "T2X" and the empty string *)
OtherConfigs ==
    {<<83, 50, 84>>, <<72, 107, 50, 83>>, <<84, 50, 84, 87, 80>>,
     <<104, 8490, 50, 115>>, <<85, 110, 107, 110, 111, 119, 110>>,
     <<115, 50>>, <<115, 50, 116, 32>>, <<84, 50, 88>>, <<>>}

ConfigPool == ConfigNames \cup OtherConfigs

ConvertInit ==
    /\ pc = "convert_call"
    /\ input \in Texts(ConvAlphabet, MaxConvText)
    /\ opencc \in {OpenCC(s) : s \in 0..MaxSeed}
    /\ config \in ConfigPool
    /\ punctuation \in BOOLEAN
    /\ dictionaries = <<>>
    /\ ret = <<>>
    /\ SplitIdle /\ TokenIdle /\ ParIdle /\ LoadIdle
    /\ ToolIdle

(* lib.rs:790-810: the call returns the value of the arm it takes *)
ConvertReturn(value) ==
    /\ pc = "convert_call"
    /\ ret' = value
    /\ pc' = "convert_done"
    /\ UNCHANGED <<input, splitVars, convVars, tokenVars, parVars, routeVars,
                   loadVars,
                   toolVars>>

(* lib.rs:792 *)
ConvertS2t ==
    /\ to_lowercase(config) = Name_s2t
    /\ ConvertReturn(s2t(opencc, input, punctuation))

(* lib.rs:793 *)
ConvertS2tw ==
    /\ to_lowercase(config) = Name_s2tw
    /\ ConvertReturn(s2tw(opencc, input, punctuation))

(* lib.rs:794 *)
ConvertS2twp ==
    /\ to_lowercase(config) = Name_s2twp
    /\ ConvertReturn(s2twp(opencc, input, punctuation))

(* lib.rs:795 *)
ConvertS2hk ==
    /\ to_lowercase(config) = Name_s2hk
    /\ ConvertReturn(s2hk(opencc, input, punctuation))

(* lib.rs:796 *)
ConvertT2s ==
    /\ to_lowercase(config) = Name_t2s
    /\ ConvertReturn(t2s(opencc, input, punctuation))

(* lib.rs:797 *)
ConvertT2tw ==
    /\ to_lowercase(config) = Name_t2tw
    /\ ConvertReturn(t2tw(opencc, input))

(* lib.rs:798 *)
ConvertT2twp ==
    /\ to_lowercase(config) = Name_t2twp
    /\ ConvertReturn(t2twp(opencc, input))

(* lib.rs:799 *)
ConvertT2hk ==
    /\ to_lowercase(config) = Name_t2hk
    /\ ConvertReturn(t2hk(opencc, input))

(* lib.rs:800 *)
ConvertTw2s ==
    /\ to_lowercase(config) = Name_tw2s
    /\ ConvertReturn(tw2s(opencc, input, punctuation))

(* lib.rs:801 *)
ConvertTw2sp ==
    /\ to_lowercase(config) = Name_tw2sp
    /\ ConvertReturn(tw2sp(opencc, input, punctuation))

(* lib.rs:802 *)
ConvertTw2t ==
    /\ to_lowercase(config) = Name_tw2t
    /\ ConvertReturn(tw2t(opencc, input))

(* lib.rs:803 *)
ConvertTw2tp ==
    /\ to_lowercase(config) = Name_tw2tp
    /\ ConvertReturn(tw2tp(opencc, input))

(* lib.rs:804 *)
ConvertHk2s ==
    /\ to_lowercase(config) = Name_hk2s
    /\ ConvertReturn(hk2s(opencc, input, punctuation))

(* lib.rs:805 *)
ConvertHk2t ==
    /\ to_lowercase(config) = Name_hk2t
    /\ ConvertReturn(hk2t(opencc, input))

(* lib.rs:806 *)
ConvertJp2t ==
    /\ to_lowercase(config) = Name_jp2t
    /\ ConvertReturn(jp2t(opencc, input))

(* lib.rs:807 *)
ConvertT2jp ==
    /\ to_lowercase(config) = Name_t2jp
    /\ ConvertReturn(t2jp(opencc, input))

(* lib.rs:808 *)
ConvertInvalid ==
    /\ to_lowercase(config) \notin ConfigNames
    /\ ConvertReturn(InvalidConfig(config))

ConvertNext ==
    \/ ConvertS2t
    \/ ConvertS2tw
    \/ ConvertS2twp
    \/ ConvertS2hk
    \/ ConvertT2s
    \/ ConvertT2tw
    \/ ConvertT2twp
    \/ ConvertT2hk
    \/ ConvertTw2s
    \/ ConvertTw2sp
    \/ ConvertTw2t
    \/ ConvertTw2tp
    \/ ConvertHk2s
    \/ ConvertHk2t
    \/ ConvertJp2t
    \/ ConvertT2jp
    \/ ConvertInvalid

SpecConvert == ConvertInit /\ [][ConvertNext]_vars

(* The arm taken returns what the function convert computes. *)
ConvertAgreesWithFunction ==
    pc = "convert_done" => ret = convert(opencc, input, config, punctuation)

(* The routing table: for each configuration name its passes, each a list
   of dictionary fields in precedence order, and its punctuation mode. *)
Row(passes, punct) == [passes |-> passes, punct |-> punct]

TableRow(name) ==
    CASE name = Name_s2t ->
           Row(<<<<"st_phrases", "st_characters">>>>, <<LowerS>>)
      [] name = Name_t2s ->
           Row(<<<<"ts_phrases", "ts_characters">>>>, <<LowerT>>)
      [] name = Name_s2tw ->
           Row(<<<<"st_phrases", "st_characters">>, <<"tw_variants">>>>,
                   <<LowerS>>)
      [] name = Name_tw2s ->
           Row(<<<<"tw_variants_rev", "tw_variants_rev_phrases">>,
                   <<"ts_phrases", "ts_characters">>>>, <<LowerT>>)
      [] name = Name_s2twp ->
           Row(<<<<"st_phrases", "st_characters">>, <<"tw_phrases">>,
                   <<"tw_variants">>>>, <<LowerS>>)
      [] name = Name_tw2sp ->
           Row(<<<<"tw_variants_rev", "tw_variants_rev_phrases">>,
                   <<"tw_phrases_rev">>, <<"ts_phrases", "ts_characters">>>>,
                           <<LowerT>>)
      [] name = Name_s2hk ->
           Row(<<<<"st_phrases", "st_characters">>, <<"hk_variants">>>>,
                   <<LowerS>>)
      [] name = Name_hk2s ->
           Row(<<<<"hk_variants_rev_phrases", "hk_variants_rev">>,
                   <<"ts_phrases", "ts_characters">>>>, <<LowerT>>)
      [] name = Name_t2tw ->
           Row(<<<<"tw_variants">>>>, <<>>)
      [] name = Name_t2twp ->
           Row(<<<<"tw_phrases">>, <<"tw_variants">>>>, <<>>)
      [] name = Name_tw2t ->
           Row(<<<<"tw_variants_rev", "tw_variants_rev_phrases">>>>, <<>>)
      [] name = Name_tw2tp ->
           Row(<<<<"tw_variants_rev", "tw_variants_rev_phrases">>,
                   <<"tw_phrases_rev">>>>, <<>>)
      [] name = Name_t2hk ->
           Row(<<<<"hk_variants">>>>, <<>>)
      [] name = Name_hk2t ->
           Row(<<<<"hk_variants_rev_phrases", "hk_variants_rev">>>>, <<>>)
      [] name = Name_t2jp ->
           Row(<<<<"jp_variants">>>>, <<>>)
      [] name = Name_jp2t ->
           Row(<<<<"jps_phrases", "jps_characters", "jp_variants_rev">>>>,
                   <<>>)

PassDicts(self, fields) ==
    [i \in 1..Len(fields) |-> self.dictionary[fields[i]]]

(* The passes k.. of a row run in order, each on the output of the one
   before. *)
RECURSIVE RunPasses(_, _, _, _)
RunPasses(self, x, passes, k) ==
    IF k > Len(passes) THEN x
    ELSE RunPasses(self,
                   phrases_cut_convert(self, x, PassDicts(self, passes[k]),
                                       TRUE),
                   passes, k + 1)

RowResult(self, x, name, p) ==
    LET row == TableRow(name)
        y == RunPasses(self, x, row.passes, 1)
    IN  IF p /\ row.punct # <<>> THEN convert_punctuation(y, row.punct) ELSE y

(* C3: for each of the sixteen configuration names, convert gives what the
   name's row of the routing table gives: the phrase-first converter run
   once per pass in row order, each pass with the row's dictionaries in the
   listed precedence on the output of the pass before, then the punctuation
   mapper in the row's mode exactly when punctuation is requested and the
   row has a mode. *)
C3_RoutingTable ==
    (pc = "convert_done" /\ config \in ConfigNames) =>
        ret = RowResult(opencc, input, config, punctuation)

C3_Witness ==
    /\ pc = "convert_done"
    /\ config = Name_tw2sp
    /\ punctuation
    /\ LET p1 == RunPasses(opencc, input, <<TableRow(config).passes[1]>>, 1)
           p2 == RunPasses(opencc, p1, <<TableRow(config).passes[2]>>, 1)
           p3 == RunPasses(opencc, p2, <<TableRow(config).passes[3]>>, 1)
       IN  /\ p1 # input /\ p2 # p1 /\ p3 # p2
           /\ ret = convert_punctuation(p3, <<LowerT>>)
           /\ ret # p3

(* C8 as stated: for every config string that is not one of the sixteen
   names, convert returns "Invalid config: " followed by the config string
   as supplied. *)
C8_Original ==
    (pc = "convert_done" /\ config \notin ConfigNames) =>
        ret = InvalidConfigPrefix \o config

(* C8 for the strings whose lowercase form is not a name: for every config
   string whose lowercase form is not one of the sixteen names, convert
   returns "Invalid config: " followed by the config string as supplied,
   (not lowercased), whatever the input and the punctuation flag; every
   other string is routed as the name it lowercases to. *)
C8_InvalidConfig ==
    pc = "convert_done" =>
        /\ to_lowercase(config) \notin ConfigNames =>
               ret = InvalidConfigPrefix \o config
        /\ to_lowercase(config) \in ConfigNames =>
               ret = RowResult(opencc, input, to_lowercase(config),
                               punctuation)

C8_Witness ==
    /\ pc = "convert_done"
    /\ config = <<85, 110, 107, 110, 111, 119, 110>>
    /\ punctuation
    /\ Len(input) = 2
    /\ ret = InvalidConfigPrefix \o config
    /\ ret # InvalidConfigPrefix \o to_lowercase(config)

(* The configurations whose methods take no punctuation argument. *)
NoPunctNames ==
    {Name_t2tw, Name_t2twp, Name_tw2t, Name_tw2tp, Name_t2hk, Name_hk2t,
     Name_t2jp, Name_jp2t}

(* C10: for t2tw, t2twp, tw2t, tw2tp, t2hk, hk2t, t2jp and jp2t the value
   returned is the same for both values of the punctuation argument, and it
   is the output of the passes, to which the punctuation mapper has not
   been applied. *)
C10_PunctuationIgnored ==
    (pc = "convert_done" /\ config \in NoPunctNames) =>
        /\ ret = convert(opencc, input, config, ~punctuation)
        /\ ret = RunPasses(opencc, input, TableRow(config).passes, 1)

C10_Witness ==
    /\ pc = "convert_done"
    /\ config = Name_tw2tp
    /\ punctuation
    /\ Len(input) = 2
    /\ input[1] = CornerOpen
    /\ Len(ret) = 2
    /\ ret[1] = CornerOpen
    /\ ret # input
    /\ convert_punctuation(ret, <<LowerT>>) # ret

(* Delimiters and their positions among the other scalars. *)
NonDBefore(text, i) == Cardinality({k \in 1..(i - 1) : ~IsDelim(text[k])})

DelimitersKeepPlace(x, y) ==
    \A i \in 1..Len(x) :
        IsDelim(x[i]) =>
            \E j \in 1..Len(y) :
                y[j] = x[i] /\ NonDBefore(y, j) = NonDBefore(x, i)

HasDelim(text) == \E i \in 1..Len(text) : IsDelim(text[i])

(* No key and no value of the dictionary holds a delimiter, and every value
   has as many scalars as its key. *)
PlainDictionary(dictionary) ==
    \A name \in DOMAIN dictionary :
        \A key \in DOMAIN dictionary[name] :
            /\ ~HasDelim(key)
            /\ ~HasDelim(dictionary[name][key])
            /\ Len(dictionary[name][key]) = Len(key)

PunctuationMapped ==
    punctuation /\ to_lowercase(config) \notin NoPunctNames

(* C4 as stated: for every configuration run without punctuation mapping,
   whatever the dictionaries hold and however the chunk is segmented, every
   delimiter of the input occurs in the output with as many non-delimiter
   scalars before it as in the input. *)
C4_Original ==
    (/\ pc = "convert_done"
     /\ to_lowercase(config) \in ConfigNames
     /\ ~PunctuationMapped) =>
        DelimitersKeepPlace(input, ret)

(* C4 for dictionaries without delimiters and with values as long as their
   keys: under such dictionaries, for every configuration run without
   punctuation mapping and every segmentation, every delimiter of the input
   occurs in the output with as many non-delimiter scalars before it as in
   the input. *)
C4_DelimitersKeepPlace ==
    (/\ pc = "convert_done"
     /\ to_lowercase(config) \in ConfigNames
     /\ ~PunctuationMapped
     /\ PlainDictionary(opencc.dictionary)) =>
        DelimitersKeepPlace(input, ret)

C4_Witness ==
    /\ pc = "convert_done"
    /\ config = Name_s2twp
    /\ ~punctuation
    /\ PlainDictionary(opencc.dictionary)
    /\ opencc.jieba = 2
    /\ input = <<FullComma, W1>>
    /\ ret # input
    /\ ret[1] = FullComma

----------------------------------------------------------------------------
(* UTF-8 bytes and find_max_utf8_length (lib.rs:1048-1059).                *)

(* char::encode_utf8: the bytes of one scalar *)
encode_utf8(ch) ==
    IF ch < 128 THEN <<ch>>
    ELSE IF ch < 2048 THEN <<192 + (ch \div 64), 128 + (ch % 64)>>
    ELSE IF ch < 65536 THEN
        <<224 + (ch \div 4096), 128 + ((ch \div 64) % 64), 128 + (ch % 64)>>
    ELSE <<240 + (ch \div 262144), 128 + ((ch \div 4096) % 64),
           128 + ((ch \div 64) % 64), 128 + (ch % 64)>>

(* str::as_bytes *)
as_bytes(text) ==
    Concat([i \in 1..Len(text) |-> encode_utf8(text[i])], 1, Len(text))

(* lib.rs:1055, (byte & 0b11000000) == 0b10000000 *)
IsContinuationHighBit(byte) == byte >= 128
IsContinuation(byte) == byte \div 64 = 2

(* lib.rs:1055-1057, the while loop; bytes[byte_count] is the Rust index
   byte_count, a read at or past bytes.len() panics *)
RECURSIVE CutBack(_, _)
CutBack(bytes, byte_count) ==
    IF byte_count = 0 THEN <<0>>
    ELSE IF byte_count >= Len(bytes) THEN Panic
    ELSE IF IsContinuation(bytes[byte_count + 1])
         THEN CutBack(bytes, byte_count - 1)
    ELSE <<byte_count>>

(* lib.rs:1048-1059; the result is <<r>>, or Panic *)
find_max_utf8_length(sv, max_bytes) ==
    LET bytes == as_bytes(sv)
    IN  IF Len(bytes) <= max_bytes THEN <<Len(bytes)>>
        ELSE CutBack(bytes, max_bytes)

----------------------------------------------------------------------------
(* Specification SpecTrunc: one call of find_max_utf8_length.              *)

MaxTruncLen == 3
MaxBudget == 13
TruncAlphabet == {LatinA, EAcute, Dragon, ExtB}

TruncInit ==
    /\ pc = "start"
    /\ input \in Texts(TruncAlphabet, MaxTruncLen)
    /\ max_byte_count \in 0..MaxBudget
    /\ ret = <<>>
    /\ dict_map = <<>> /\ json_data = <<>> /\ files = <<>>
    /\ SplitIdle /\ ConvIdle /\ TokenIdle /\ ParIdle /\ RouteIdle
    /\ ToolIdle

TruncCall ==
    /\ pc = "start"
    /\ pc' = "done"
    /\ ret' = find_max_utf8_length(input, max_byte_count)
    /\ UNCHANGED <<input, splitVars, convVars, tokenVars, parVars, routeVars,
                   loadVars,
                   toolVars>>

TruncNext == TruncCall

SpecTrunc == TruncInit /\ [][TruncNext]_vars

(* C20: the result of find_max_utf8_length is at most max_byte_count and at
   most sv.len(), lies on a scalar boundary of sv, is the largest offset
   with these three properties, and no byte past the end of sv is read. *)
C20_LargestBoundary ==
    pc = "done" =>
        /\ ret # Panic
        /\ ret[1] <= max_byte_count
        /\ ret[1] <= str_len(input)
        /\ is_char_boundary(input, ret[1])
        /\ \A b \in (ret[1] + 1)..Min(max_byte_count, str_len(input)) :
               ~is_char_boundary(input, b)

C20_Witness ==
    /\ pc = "done"
    /\ max_byte_count < str_len(input)
    /\ ret # Panic
    /\ ret[1] + 2 = max_byte_count
    /\ input[1] = ExtB

----------------------------------------------------------------------------
(* OpenCC::zho_check, lib.rs:837-856.                                      *)

Zhu == 33879           \* U+8457, the one non-ASCII scalar of STRIP_REGEX
Yi == 19968            \* U+4E00, three bytes

(* lib.rs:59-60, the character class of STRIP_REGEX *)
STRIP_REGEX ==
    (33..47) \cup (58..64) \cup (91..96) \cup (123..126) \cup {9, 10, 11, 12, 13}
    \cup {32} \cup (48..57) \cup (65..90) \cup (97..122) \cup {95} \cup {Zhu}

(* Regex::replace_all(text, "") *)
NotStripped(ch) == ch \notin STRIP_REGEX
replace_all_strip(text) == SelectSeq(text, NotStripped)

(* lib.rs:731-736 *)
st(self, text) == convert_by_char(text, <<self.dictionary["st_characters"]>>)

(* lib.rs:742-747 *)
ts(self, text) == convert_by_char(text, <<self.dictionary["ts_characters"]>>)

(* lib.rs:841 *)
CheckLengthWhole(text) == <<str_len(text)>>
CheckLength(text) == find_max_utf8_length(text, 1000)

(* lib.rs:846-854 *)
CheckCodeStFirst(self, strip_text) ==
    IF strip_text # st(self, strip_text) THEN 2
    ELSE IF strip_text # ts(self, strip_text) THEN 1
    ELSE 0
CheckCode(self, strip_text) ==
    IF strip_text # ts(self, strip_text) THEN 1
    ELSE IF strip_text # st(self, strip_text) THEN 2
    ELSE 0

(* lib.rs:837-856; the result is <<code>>, or Panic *)
zho_check(self, text) ==
    IF text = <<>> THEN <<0>>
    ELSE
        LET check_length == CheckLength(text)
        IN  IF check_length = Panic THEN Panic
            ELSE
            LET head == str_slice(text, 0, check_length[1])
            IN  IF head = Panic THEN Panic
                ELSE
                LET _strip_text == replace_all_strip(head)
                    max_bytes == find_max_utf8_length(_strip_text, 200)
                IN  IF max_bytes = Panic THEN Panic
                    ELSE
                    LET strip_text == str_slice(_strip_text, 0, max_bytes[1])
                    IN  IF strip_text = Panic THEN Panic
                        ELSE <<CheckCode(self, strip_text)>>

----------------------------------------------------------------------------
(* Specification SpecCheck: one call of zho_check, on short texts with     *)
(* every pair of character tables and on texts that exceed the two byte    *)
(* budgets.                                                                *)

MaxCheckLen == 2
MaxCharMap == 15
MaxLongMap == 3
MaxTail == 2
PadLen == 997
FillLen == 66

(* A family of single-scalar tables: W1 to W2 (bit 0) or to itself (bit 2),
   W2 to W1 (bit 1), FullComma to two scalars and the stripped scalars to
   W1 (bit 3). *)
CharMap(h) ==
    LET m0 == IF Bit(h, 0) THEN (<<W1>> :> <<W2>>) ELSE EmptyMap
        m1 == IF Bit(h, 1) THEN (<<W2>> :> <<W1>>) ELSE EmptyMap
        m2 == IF Bit(h, 2) THEN (<<W1>> :> <<W1>>) ELSE EmptyMap
        m3 == IF Bit(h, 3)
              THEN (<<FullComma>> :> <<W1, W1>>) @@ (<<Zhu>> :> <<W1>>)
                   @@ (<<W0>> :> <<W1>>)
              ELSE EmptyMap
    IN  m0 @@ m1 @@ m2 @@ m3

CheckOpenCC(a, b) ==
    [jieba |-> 0,
     dictionary |-> [Dictionary(0) EXCEPT !["st_characters"] = CharMap(a),
                                          !["ts_characters"] = CharMap(b)]]

CheckAlphabet == {W0, W1, W2, FullComma, Zhu}
Pad == [i \in 1..PadLen |-> W0]
Fill == [i \in 1..FillLen |-> Yi]
LongTexts ==
    {h \o body \o t : h \in Texts({W0, W1}, 1), body \in {Pad, Fill},
                      t \in Texts({W0, W1, W2}, MaxTail)}

CheckInit ==
    /\ pc = "start"
    /\ \/ /\ input \in Texts(CheckAlphabet, MaxCheckLen)
          /\ \E a, b \in 0..MaxCharMap : opencc = CheckOpenCC(a, b)
       \/ /\ input \in LongTexts
          /\ \E a, b \in 0..MaxLongMap : opencc = CheckOpenCC(a, b)
    /\ ret = <<>>
    /\ dictionaries = <<>>
    /\ SplitIdle /\ TokenIdle /\ ParIdle /\ RouteIdle /\ LoadIdle
    /\ ToolIdle

CheckCall ==
    /\ pc = "start"
    /\ pc' = "done"
    /\ ret' = zho_check(opencc, input)
    /\ UNCHANGED <<input, splitVars, convVars, tokenVars, parVars, routeVars,
                   loadVars,
                   toolVars>>

CheckNext == CheckCall

SpecCheck == CheckInit /\ [][CheckNext]_vars

(* The longest prefix of whole scalars of text that fits in n bytes. *)
TakeBytes(text, n) ==
    LET b == char_boundaries(text)
    IN  SubSeq(text, 1, Cardinality({i \in 1..Len(text) : b[i + 1] <= n}))

(* The byte offset is the end of a whole-scalar prefix of the text. *)
OnBoundary(text, offset) == str_len(TakeBytes(text, offset)) = offset

(* The text zho_check examines: the input cut to 1000 bytes, stripped, and
   cut to 200 bytes. *)
ExaminedText(text) == TakeBytes(replace_all_strip(TakeBytes(text, 1000)), 200)

(* The table maps the scalar to a value other than the scalar itself. *)
Changes(table, ch) == <<ch>> \in DOMAIN table /\ table[<<ch>>] # <<ch>>

ChangedBy(name, t) ==
    \E i \in 1..Len(t) : Changes(opencc.dictionary[name], t[i])

(* C11: zho_check returns 1 when some scalar of the examined text is changed
   by ts_characters (whatever st_characters does), 2 when none is changed by
   ts_characters and some scalar is changed by st_characters, and 0
   otherwise; the result is always one of 0, 1, 2. *)
C11_CheckCode ==
    pc = "done" =>
        LET t == ExaminedText(input)
        IN  /\ ret \in {<<0>>, <<1>>, <<2>>}
            /\ ret = <<(IF ChangedBy("ts_characters", t) THEN 1
                        ELSE IF ChangedBy("st_characters", t) THEN 2
                        ELSE 0)>>

C11_Witness ==
    /\ pc = "done"
    /\ ret = <<1>>
    /\ Len(input) = 2
    /\ ChangedBy("ts_characters", ExaminedText(input))
    /\ ChangedBy("st_characters", ExaminedText(input))

(* C12: the result of zho_check is the result for the input's first 1000
   bytes cut back to a scalar boundary, and the result for the first 200
   bytes (cut back likewise) of the stripped text; both cuts fall on a
   scalar boundary, so neither slice fails. *)
C12_BoundedPrefix ==
    pc = "done" =>
        LET head == TakeBytes(input, 1000)
            stripped == replace_all_strip(head)
        IN  /\ ret # Panic
            /\ ret = zho_check(opencc, head)
            /\ ret = zho_check(opencc, TakeBytes(stripped, 200))
            /\ OnBoundary(input, CheckLength(input)[1])
            /\ OnBoundary(stripped, find_max_utf8_length(stripped, 200)[1])

C12_Witness ==
    /\ pc = "done"
    /\ str_len(input) > 1000
    /\ str_len(TakeBytes(input, 1000)) = 999
    /\ ret = <<0>>
    /\ ChangedBy("ts_characters", input)

----------------------------------------------------------------------------
(* DictMap, dictionary_lib/dict_map.rs.  The u64 key_len_mask is held as   *)
(* the set of the indices (0..63) of its set bits.                         *)

(* dict_map.rs:76-86, DictMap::default *)
DictMapDefault ==
    [map |-> EmptyMap, min_len |-> 0, max_len |-> 0, key_len_mask |-> {},
     long_lengths |-> {}]

(* dict_map.rs:113, len_chars <= 64 *)
FitsMaskBelow(len_chars) == len_chars < 64
FitsMask(len_chars) == len_chars <= 64

(* dict_map.rs:118-123, the update of min_len and max_len *)
MinMaxUpdate(self, len_chars) ==
    [self EXCEPT
        !.min_len = IF self.min_len = 0 \/ len_chars < self.min_len
                    THEN len_chars ELSE @,
        !.max_len = IF len_chars > self.max_len THEN len_chars ELSE @]

(* HashMap::insert *)
MapInsert(map, key, val) ==
    [k \in (DOMAIN map) \cup {key} |-> IF k = key THEN val ELSE map[k]]

(* dict_map.rs:111-126 *)
insert_with_len(self, key, val, len_chars) ==
    LET marked ==
            IF len_chars = 0 THEN self
            ELSE MinMaxUpdate(
                     IF FitsMask(len_chars)
                     THEN [self EXCEPT !.key_len_mask = @ \cup {len_chars - 1}]
                     ELSE [self EXCEPT !.long_lengths = @ \cup {len_chars}],
                     len_chars)
    IN  [marked EXCEPT !.map = MapInsert(self.map, key, val)]

(* dict_map.rs:166-175 *)
has_key_len(self, n) ==
    IF n = 0 THEN FALSE
    ELSE IF n <= 64 THEN (n - 1) \in self.key_len_mask
    ELSE n \in self.long_lengths

----------------------------------------------------------------------------
(* Specification SpecDictMap: any sequence of insert_with_len calls on a   *)
(* default DictMap, each passing key.chars().count().                      *)

MaxShortKey == 2
MaxLongKey == 66

KeyOf(n) == [i \in 1..n |-> W0]
KeyPool ==
    {KeyOf(n) : n \in (0..MaxShortKey) \cup (64..MaxLongKey)} \cup {<<W1>>}
ValPool == {<<W1>>, <<W2>>}

DictMapInit ==
    /\ pc = "start"
    /\ input = <<>>
    /\ ret = <<>>
    /\ dict_map = DictMapDefault
    /\ max_byte_count = 0 /\ json_data = <<>> /\ files = <<>>
    /\ SplitIdle /\ ConvIdle /\ TokenIdle /\ ParIdle /\ RouteIdle
    /\ ToolIdle

Insert ==
    /\ \E key \in KeyPool, val \in ValPool :
           dict_map' = insert_with_len(dict_map, key, val, Len(key))
    /\ UNCHANGED <<pc, input, ret, splitVars, convVars, tokenVars, parVars,
                   routeVars, max_byte_count, json_data, files,
                   toolVars>>

DictMapNext == Insert

SpecDictMap == DictMapInit /\ [][DictMapNext]_vars

KeyLens == {Len(key) : key \in DOMAIN dict_map.map}

(* C13: after any sequence of insert_with_len calls that pass the key's
   scalar count, has_key_len(n) holds for n >= 1 exactly when a key of n
   scalars is held (bit n-1 of the mask up to 64, long_lengths above), and
   has_key_len(0) is false. *)
C13_HasKeyLen ==
    /\ ~has_key_len(dict_map, 0)
    /\ \A n \in 1..(MaxLongKey + 2) :
           /\ has_key_len(dict_map, n) <=> n \in KeyLens
           /\ n <= 64 => ((n - 1) \in dict_map.key_len_mask <=> n \in KeyLens)
           /\ n > 64 => (n \in dict_map.long_lengths <=> n \in KeyLens)

C13_Witness ==
    /\ KeyLens = {1, 64, 65}
    /\ {<<W0>>, <<W1>>} \subseteq DOMAIN dict_map.map
    /\ has_key_len(dict_map, 64)
    /\ has_key_len(dict_map, 65)
    /\ dict_map.map[<<W0>>] = <<W2>>
    /\ dict_map.map[<<W1>>] = <<W2>>

(* C14: after any sequence of insert_with_len calls min_len and max_len are
   the least and the greatest scalar length of the keys held, both are 0
   exactly when the map is empty, and min_len <= max_len when it is not. *)
C14_MinMax ==
    /\ (dict_map.min_len = 0 /\ dict_map.max_len = 0) <=> KeyLens = {}
    /\ KeyLens # {} =>
           /\ dict_map.min_len \in KeyLens
           /\ dict_map.max_len \in KeyLens
           /\ \A n \in KeyLens : dict_map.min_len <= n /\ n <= dict_map.max_len
           /\ dict_map.min_len <= dict_map.max_len

----------------------------------------------------------------------------
(* The text-file loaders: Dictionary::load_dictionary_from_path            *)
(* (dictionary_lib/mod.rs:233-259) and load_dictionary_from_str            *)
(* (zho_dictionary.rs:104-119).                                            *)

LineFeed == 10
CarriageReturn == 13
Tab == 9
VerticalTab == 11
Space == 32
IdeographicSpace == 12288

(* char::is_whitespace: the scalars with the White_Space property *)
White_Space ==
    {9, 10, 11, 12, 13, 32, 133, 160, 5760} \cup (8192..8202)
    \cup {8232, 8233, 8239, 8287, 12288}
is_whitespace(ch) == ch \in White_Space

(* io::Result *)
Ok(v) == [ok |-> TRUE, val |-> v]
Err == [ok |-> FALSE]

(* A path at which File::open fails. *)
NoFile == <<-2>>

(* BufRead::lines / str::lines: the text is cut after every "\n"; the "\n"
   and a "\r" just before it are dropped; a last line without "\n" is
   yielded as it is. *)
RECURSIVE lines(_)
lines(text) ==
    IF text = <<>> THEN <<>>
    ELSE IF \E i \in 1..Len(text) : text[i] = LineFeed
    THEN LET i == CHOOSE k \in 1..Len(text) :
                      /\ text[k] = LineFeed
                      /\ \A j \in 1..(k - 1) : text[j] # LineFeed
             body == SubSeq(text, 1, i - 1)
             line == IF body # <<>> /\ body[Len(body)] = CarriageReturn
                     THEN SubSeq(body, 1, Len(body) - 1) ELSE body
         IN  <<line>> \o lines(SubSeq(text, i + 1, Len(text)))
    ELSE <<text>>

(* str::split_whitespace().collect(): a left-to-right scan that closes the
   current token at every whitespace scalar and yields no empty token. *)
split_whitespace(line) ==
    LET scan[i \in 0..Len(line)] ==
            IF i = 0 THEN [parts |-> <<>>, cur |-> <<>>]
            ELSE LET p == scan[i - 1]
                 IN  IF is_whitespace(line[i])
                     THEN [parts |-> IF p.cur = <<>> THEN p.parts
                                     ELSE Append(p.parts, p.cur),
                           cur |-> <<>>]
                     ELSE [parts |-> p.parts, cur |-> Append(p.cur, line[i])]
        last == scan[Len(line)]
    IN  IF last.cur = <<>> THEN last.parts ELSE Append(last.parts, last.cur)

(* mod.rs:248, key.chars().count() as u16 *)
LenCharsBytes(key) == str_len(key) % 65536
LenChars(key) == Len(key) % 65536

(* mod.rs:243-254, the body of the loop for one line *)
LoadLine(dict, line) ==
    LET parts == split_whitespace(line)
    IN  IF Len(parts) > 1
        THEN insert_with_len(dict, parts[1], parts[2], LenChars(parts[1]))
        ELSE dict

RECURSIVE LoadLines(_, _, _)
LoadLines(dict, ls, i) ==
    IF i > Len(ls) THEN dict ELSE LoadLines(LoadLine(dict, ls[i]), ls, i + 1)

(* mod.rs:233-259 *)
load_dictionary_from_path(file) ==
    IF file = NoFile THEN Err
    ELSE Ok(LoadLines(DictMapDefault, lines(file), 1))

(* zho_dictionary.rs:109-116, the body of the loop for one line *)
StrLine(dictionary, line) ==
    LET parts == split_whitespace(line)
    IN  IF Len(parts) >= 2 THEN MapInsert(dictionary, parts[1], parts[2])
        ELSE dictionary

RECURSIVE StrLines(_, _, _)
StrLines(dictionary, ls, i) ==
    IF i > Len(ls) THEN dictionary
    ELSE StrLines(StrLine(dictionary, ls[i]), ls, i + 1)

(* zho_dictionary.rs:104-119 *)
load_dictionary_from_str(dictionary_content) ==
    Ok(StrLines(EmptyMap, lines(dictionary_content), 1))

----------------------------------------------------------------------------
(* Specification SpecLoader: one source text, loaded by either loader.     *)

MaxLineLen == 3
LoaderAlphabet == {W0, W1, Space, IdeographicSpace}
LinePool ==
    Texts(LoaderAlphabet, MaxLineLen)
    \cup {<<W0, Tab, W1, CarriageReturn>>, <<W0, Space, W1, Tab, W0>>,
          <<W0, VerticalTab, W1>>, <<W1, W1, Space, Space, W0>>}
FilePool ==
    LinePool \cup {a \o <<LineFeed>> \o b : a \in LinePool, b \in LinePool}

LoaderInit ==
    /\ pc = "start"
    /\ input \in FilePool
    /\ ret = <<>>
    /\ SplitIdle /\ ConvIdle /\ TokenIdle /\ ParIdle /\ RouteIdle /\ LoadIdle
    /\ ToolIdle

LoadFromPath ==
    /\ pc = "start"
    /\ pc' = "path"
    /\ ret' = load_dictionary_from_path(input)
    /\ UNCHANGED <<input, splitVars, convVars, tokenVars, parVars, routeVars,
                   loadVars,
                   toolVars>>

LoadFromStr ==
    /\ pc = "start"
    /\ pc' = "str"
    /\ ret' = load_dictionary_from_str(input)
    /\ UNCHANGED <<input, splitVars, convVars, tokenVars, parVars, routeVars,
                   loadVars,
                   toolVars>>

LoaderNext == LoadFromPath \/ LoadFromStr

SpecLoader == LoaderInit /\ [][LoaderNext]_vars

(* The tokens of a text, given by position: a token starts at a scalar
   outside ws that is first in the text or follows a scalar of ws, and runs
   to the last scalar before the next scalar of ws.  "\n" is in ws, so no
   token spans two lines. *)
TokenStarts(text, ws) ==
    {i \in 1..Len(text) :
        text[i] \notin ws /\ (i = 1 \/ text[i - 1] \in ws)}

TokenAt(text, ws, i) ==
    SubSeq(text, i,
           CHOOSE j \in i..Len(text) :
               /\ \A k \in i..j : text[k] \notin ws
               /\ (j = Len(text) \/ text[j + 1] \in ws))

LineOf(text, i) == Cardinality({k \in 1..(i - 1) : text[k] = LineFeed})

(* The starts of the first and of the second token of every line that has
   at least two tokens. *)
EntryStarts(text, ws) ==
    {<<a, b>> \in TokenStarts(text, ws) \X TokenStarts(text, ws) :
        /\ a < b
        /\ LineOf(text, a) = LineOf(text, b)
        /\ \A c \in TokenStarts(text, ws) :
               (c < b /\ LineOf(text, c) = LineOf(text, a)) => c = a}

(* tokens[0] -> tokens[1] of every such line, the last line winning. *)
ExpectedTable(text, ws) ==
    LET es == EntryStarts(text, ws)
        keys == {TokenAt(text, ws, e[1]) : e \in es}
    IN  [key \in keys |->
            LET e == CHOOSE x \in es :
                         /\ TokenAt(text, ws, x[1]) = key
                         /\ \A y \in es :
                                TokenAt(text, ws, y[1]) = key => y[1] <= x[1]
            IN  TokenAt(text, ws, e[2])]

AsciiWhitespace == {9, 10, 12, 13, 32}

LoadedMap == IF pc = "path" THEN ret.val.map ELSE ret.val

(* C17 as stated: the table of either loader holds exactly tokens[0] ->
   tokens[1] of every line with at least two tokens when the line is split
   on ASCII whitespace. *)
C17_Original ==
    pc \in {"path", "str"} =>
        ret.ok /\ LoadedMap = ExpectedTable(input, AsciiWhitespace)

(* C17: the table of either loader holds exactly tokens[0] -> tokens[1] of
   every line with at least two tokens when the line is split on Unicode
   whitespace (char::is_whitespace), surplus tokens ignored and the last
   line with a key winning; other lines add nothing and the load still
   succeeds; the statistics of the DictMap are those of the keys' scalar
   counts. *)
C17_LoadedTable ==
    pc \in {"path", "str"} =>
        /\ ret.ok
        /\ LoadedMap = ExpectedTable(input, White_Space)
        /\ pc = "path" =>
               LET lens == {Len(key) : key \in DOMAIN ret.val.map}
               IN  /\ \A n \in 0..(2 * MaxLineLen + 2) :
                          has_key_len(ret.val, n) <=> n \in lens
                   /\ lens # {} =>
                          /\ ret.val.min_len \in lens
                          /\ ret.val.max_len \in lens
                          /\ \A n \in lens : /\ ret.val.min_len <= n
                                             /\ n <= ret.val.max_len

C17_Witness ==
    /\ pc = "path"
    /\ input = <<W0, Space, W1, LineFeed, W0, Space, W0>>
    /\ ret.val.map = (<<W0>> :> <<W0>>)

----------------------------------------------------------------------------
(* The constructors of Dictionary, dictionary_lib/mod.rs:58-203.           *)

SCHEMA_VERSION == 2

DictNameSet == {DictNames[d] : d \in 1..16}
DictFields == {"schema_version"} \cup DictNameSet
DictMapFields == {"map", "min_len", "max_len", "key_len_mask", "long_lengths"}

(* A call that returns a value, and a call that panics. *)
Return(v) == [returned |-> TRUE, val |-> v]
Abort == [returned |-> FALSE]

(* mod.rs:58-81, impl Default for Dictionary *)
Dictionary_defaultCurrent ==
    [f \in DictFields |->
        IF f = "schema_version" THEN SCHEMA_VERSION ELSE DictMapDefault]
Dictionary_default ==
    [f \in DictFields |-> IF f = "schema_version" THEN 0 ELSE DictMapDefault]

(* dict_map.rs:51-74, Deserialize for DictMap: a JSON object, given as the
   function from the names it holds to their values; an unknown name is an
   error (deny_unknown_fields), an absent one takes its default. *)
DictMapFromJson(object) ==
    IF DOMAIN object \subseteq DictMapFields
    THEN Ok([f \in DictMapFields |->
                IF f \in DOMAIN object THEN object[f] ELSE DictMapDefault[f]])
    ELSE Err

(* mod.rs:20-56, Deserialize for Dictionary over the decompressed document:
   malformed JSON, an unknown name, an absent name (no field has a default)
   and a field that fails to deserialize are errors. *)
from_str(doc) ==
    IF ~doc.wellformed THEN Err
    ELSE IF DOMAIN doc.object # DictFields THEN Err
    ELSE IF \E f \in DictNameSet : ~DictMapFromJson(doc.object[f]).ok THEN Err
    ELSE Ok([f \in DictFields |->
                IF f = "schema_version" THEN doc.object[f]
                ELSE DictMapFromJson(doc.object[f]).val])

(* mod.rs:105-108, assert_eq!(dict.schema_version, SCHEMA_VERSION) *)
AssertVersionSkipped(dict) == TRUE
AssertVersion(dict) == dict["schema_version"] = SCHEMA_VERSION

(* mod.rs:87-111, Dictionary::new over the embedded blob *)
Dictionary_new(blob) ==
    IF ~blob.zstd THEN Abort
    ELSE LET parsed == from_str(blob)
             dict == IF parsed.ok THEN parsed.val ELSE Dictionary_default
         IN  IF AssertVersion(dict) THEN Return(dict) ELSE Abort

(* mod.rs:138-203, Dictionary::from_dicts over the sixteen text files *)
from_dicts(fs) ==
    IF \E name \in DictNameSet : ~load_dictionary_from_path(fs[name]).ok
    THEN Abort
    ELSE Return([f \in DictFields |->
                    IF f = "schema_version" THEN SCHEMA_VERSION
                    ELSE load_dictionary_from_path(fs[f]).val])

----------------------------------------------------------------------------
(* Specification SpecDictionary: one call of a constructor, over embedded  *)
(* documents and file sets that are complete or defective in every way     *)
(* the deserializer and the loader distinguish.                            *)

MaxVersion == 3

(* One table as JSON: complete, the empty object, or with an unknown name. *)
TableJson ==
    [map |-> (<<W0>> :> <<W1>>), min_len |-> 1, max_len |-> 1,
     key_len_mask |-> {0}, long_lengths |-> {}]
TableShapes ==
    {TableJson, EmptyMap, [map |-> (<<W0>> :> <<W1>>), note |-> 0]}

OptionalNames == {"schema_version", "st_characters", "jp_variants_rev"}

JsonObject(version, absent, unknown, shape) ==
    [f \in (DictFields \ absent) \cup (IF unknown THEN {"comment"} ELSE {}) |->
        IF f = "schema_version" THEN version
        ELSE IF f = "comment" THEN 0
        ELSE IF f = "ts_phrases" THEN shape
        ELSE TableJson]

BlobPool ==
    {[zstd |-> z, wellformed |-> w,
      object |-> JsonObject(version, absent, unknown, shape)] :
        z \in BOOLEAN, w \in BOOLEAN, version \in 0..MaxVersion,
        absent \in SUBSET OptionalNames, unknown \in BOOLEAN,
        shape \in TableShapes}

FileSets ==
    {[name \in DictNameSet |-> IF name = "st_characters" THEN a ELSE b] :
        a \in {NoFile, <<>>, <<W0, Tab, W1>>},
        b \in {NoFile, <<W1, Space, W0, LineFeed>>}}

DictionaryInit ==
    /\ pc = "start"
    /\ json_data \in BlobPool
    /\ files \in FileSets
    /\ input = <<>>
    /\ ret = <<>>
    /\ max_byte_count = 0 /\ dict_map = <<>>
    /\ SplitIdle /\ ConvIdle /\ TokenIdle /\ ParIdle /\ RouteIdle
    /\ ToolIdle

ConstructorFrame ==
    UNCHANGED <<input, splitVars, convVars, tokenVars, parVars, routeVars,
                loadVars,
                   toolVars>>

New ==
    /\ pc = "start"
    /\ pc' = "new"
    /\ ret' = Dictionary_new(json_data)
    /\ ConstructorFrame

FromDicts ==
    /\ pc = "start"
    /\ pc' = "from_dicts"
    /\ ret' = from_dicts(files)
    /\ ConstructorFrame

Default ==
    /\ pc = "start"
    /\ pc' = "default"
    /\ ret' = Return(Dictionary_default)
    /\ ConstructorFrame

DictionaryNext == New \/ FromDicts \/ Default

SpecDictionary == DictionaryInit /\ [][DictionaryNext]_vars

(* The document holds every field of Dictionary and no other name, no table
   holds an unknown name, and schema_version is SCHEMA_VERSION. *)
StrictDocument ==
    /\ json_data.zstd /\ json_data.wellformed
    /\ DOMAIN json_data.object = DictFields
    /\ \A f \in DictNameSet : DOMAIN json_data.object[f] \subseteq DictMapFields
    /\ json_data.object["schema_version"] = SCHEMA_VERSION

(* C15: Dictionary::new returns a Dictionary only for a well-formed
   document with every required field, no unknown field and schema_version
   equal to SCHEMA_VERSION, and then it returns the tables of the document;
   in every other case the call panics and returns nothing, in particular
   no default Dictionary. *)
C15_StrictLoad ==
    pc = "new" =>
        IF StrictDocument
        THEN /\ ret.returned
             /\ \A f \in DictNameSet \ {"ts_phrases"} : ret.val[f] = TableJson
             /\ ret.val["ts_phrases"].map = 
                    (IF "map" \in DOMAIN json_data.object["ts_phrases"]
                     THEN json_data.object["ts_phrases"].map ELSE EmptyMap)
        ELSE ret = Abort

C15_Witness ==
    /\ pc = "new"
    /\ ret = Abort
    /\ json_data.zstd /\ json_data.wellformed
    /\ DOMAIN json_data.object = DictFields \ {"jp_variants_rev"}
    /\ json_data.object["schema_version"] = SCHEMA_VERSION

(* C16 as stated: every Dictionary produced by new, from_dicts or default
   has schema_version equal to SCHEMA_VERSION. *)
C16_Original ==
    (pc \in {"new", "from_dicts", "default"} /\ ret.returned) =>
        ret.val["schema_version"] = SCHEMA_VERSION

(* C16: every Dictionary returned by Dictionary::new or by
   Dictionary::from_dicts has schema_version equal to SCHEMA_VERSION; the
   one from Dictionary::default has schema_version 0. *)
C16_ConstructedVersion ==
    /\ (pc \in {"new", "from_dicts"} /\ ret.returned) =>
           ret.val["schema_version"] = SCHEMA_VERSION
    /\ pc = "default" => ret.returned /\ ret.val["schema_version"] = 0

C16_Witness ==
    /\ pc = "from_dicts"
    /\ ret.returned
    /\ ret.val["st_characters"].map = (<<W0>> :> <<W1>>)
    /\ ret.val["schema_version"] = SCHEMA_VERSION

----------------------------------------------------------------------------
(* Specification SpecForeign: convert on texts over scalars that few or    *)
(* none of the tables know.                                                *)

MaxForeignText == 3
ForeignAlphabet == {EAcute, Yi, Zhu, W2}

ForeignInit ==
    /\ pc = "convert_call"
    /\ input \in Texts(ForeignAlphabet, MaxForeignText)
    /\ opencc \in {OpenCC(s) : s \in 0..MaxSeed}
    /\ config \in ConfigPool
    /\ punctuation \in BOOLEAN
    /\ dictionaries = <<>>
    /\ ret = <<>>
    /\ SplitIdle /\ TokenIdle /\ ParIdle /\ LoadIdle
    /\ ToolIdle

SpecForeign == ForeignInit /\ [][ConvertNext]_vars

(* The scalars that occur in some key of some table of the dictionary. *)
KeyScalars(dictionary) ==
    UNION {{key[i] : i \in 1..Len(key)} :
              key \in UNION {DOMAIN dictionary[name] : name \in DOMAIN dictionary}}

ForeignText(text, dictionary) ==
    \A i \in 1..Len(text) :
        text[i] \notin KeyScalars(dictionary) /\ text[i] \notin DELIMITER_SET

(* C18: a text whose scalars occur in no key of any of the sixteen tables
   and are not delimiters is returned unchanged by convert under each of the
   sixteen configurations, with and without punctuation, however the
   segmenter cuts it. *)
C18_ForeignIdentity ==
    (/\ pc = "convert_done"
     /\ to_lowercase(config) \in ConfigNames
     /\ ForeignText(input, opencc.dictionary)) =>
        ret = input

C18_Witness ==
    /\ pc = "convert_done"
    /\ config = Name_tw2sp
    /\ punctuation
    /\ opencc.jieba = 2
    /\ W2 \notin KeyScalars(opencc.dictionary)
    /\ input = <<W2, EAcute, Yi>>
    /\ ret = input

----------------------------------------------------------------------------
(* Specification SpecRound: a configuration followed by its opposite,      *)
(* applied to an input and then to the result.                             *)

MaxRoundText == 2
RoundAlphabet == {W0, W1, W2, FullComma, CurlyDoubleOpen}

(* lib.rs:790-810: the configuration that converts back *)
OppositeMispaired(name) ==
    CASE name = Name_s2t -> Name_t2s
      [] name = Name_t2s -> Name_s2t
      [] name = Name_s2tw -> Name_hk2s
      [] name = Name_tw2s -> Name_s2tw
      [] name = Name_s2twp -> Name_tw2sp
      [] name = Name_tw2sp -> Name_s2twp
      [] name = Name_s2hk -> Name_hk2s
      [] name = Name_hk2s -> Name_s2tw
      [] name = Name_t2tw -> Name_tw2t
      [] name = Name_tw2t -> Name_t2tw
      [] name = Name_t2twp -> Name_tw2tp
      [] name = Name_tw2tp -> Name_t2twp
      [] name = Name_t2hk -> Name_hk2t
      [] name = Name_hk2t -> Name_t2hk
      [] name = Name_t2jp -> Name_jp2t
      [] name = Name_jp2t -> Name_t2jp
Opposite(name) ==
    CASE name = Name_s2t -> Name_t2s
      [] name = Name_t2s -> Name_s2t
      [] name = Name_s2tw -> Name_tw2s
      [] name = Name_tw2s -> Name_s2tw
      [] name = Name_s2twp -> Name_tw2sp
      [] name = Name_tw2sp -> Name_s2twp
      [] name = Name_s2hk -> Name_hk2s
      [] name = Name_hk2s -> Name_s2hk
      [] name = Name_t2tw -> Name_tw2t
      [] name = Name_tw2t -> Name_t2tw
      [] name = Name_t2twp -> Name_tw2tp
      [] name = Name_tw2tp -> Name_t2twp
      [] name = Name_t2hk -> Name_hk2t
      [] name = Name_hk2t -> Name_t2hk
      [] name = Name_t2jp -> Name_jp2t
      [] name = Name_jp2t -> Name_t2jp

RoundInit ==
    /\ pc = "convert_call"
    /\ input \in Texts(RoundAlphabet, MaxRoundText)
    /\ opencc \in {OpenCC(s) : s \in 0..MaxSeed}
    /\ config \in ConfigNames
    /\ punctuation \in BOOLEAN
    /\ dictionaries = <<>>
    /\ ret = <<>>
    /\ SplitIdle /\ TokenIdle /\ ParIdle /\ LoadIdle
    /\ ToolIdle

(* The caller passes the value convert returned to the next call, under the
   opposite configuration: ri counts the calls made before this one, out
   keeps the first input x and chunk_out the value B(A(x)) of the second
   call. *)
Feed ==
    /\ pc = "convert_done"
    /\ ri < 3
    /\ pc' = "convert_call"
    /\ input' = ret
    /\ config' = Opposite(config)
    /\ ri' = ri + 1
    /\ out' = IF ri = 0 THEN input ELSE out
    /\ chunk_out' = IF ri = 1 THEN ret ELSE chunk_out
    /\ UNCHANGED <<ret, splitVars, convVars, tokens, phrase, emitted, path,
                   parVars, punctuation, loadVars,
                   toolVars>>

RoundNext ==
    \/ ConvertS2t \/ ConvertS2tw \/ ConvertS2twp \/ ConvertS2hk
    \/ ConvertT2s \/ ConvertT2tw \/ ConvertT2twp \/ ConvertT2hk
    \/ ConvertTw2s \/ ConvertTw2sp \/ ConvertTw2t \/ ConvertTw2tp
    \/ ConvertHk2s \/ ConvertHk2t \/ ConvertJp2t \/ ConvertT2jp
    \/ Feed

SpecRound == RoundInit /\ [][RoundNext]_vars

(* The fourth call has returned: ret is B(A(B(A(x)))). *)
RoundDone == pc = "convert_done" /\ ri = 3

(* The pairs of opposite configurations. *)
OppositePairs ==
    {<<Name_s2t, Name_t2s>>, <<Name_s2tw, Name_tw2s>>,
     <<Name_s2twp, Name_tw2sp>>, <<Name_s2hk, Name_hk2s>>,
     <<Name_t2tw, Name_tw2t>>, <<Name_t2twp, Name_tw2tp>>,
     <<Name_t2hk, Name_hk2t>>, <<Name_t2jp, Name_jp2t>>}

Partner(name) ==
    CHOOSE other \in ConfigNames :
        <<name, other>> \in OppositePairs \/ <<other, name>> \in OppositePairs

(* The tables the row of a configuration names. *)
UsedTables(name) ==
    UNION {{TableRow(name).passes[k][i] :
               i \in 1..Len(TableRow(name).passes[k])} :
              k \in 1..Len(TableRow(name).passes)}

(* Every key and every value of the table is one scalar outside D. *)
SimpleTable(table) ==
    \A key \in DOMAIN table :
        /\ Len(key) = 1 /\ Len(table[key]) = 1
        /\ ~HasDelim(key) /\ ~HasDelim(table[key])

SimpleTables(self, a, b) ==
    \A name \in UsedTables(a) \cup UsedTables(b) :
        SimpleTable(self.dictionary[name])

(* The scalars that occur in some value of some table of the dictionary. *)
ValueScalars(dictionary) ==
    UNION {UNION {{dictionary[name][key][i] :
                      i \in 1..Len(dictionary[name][key])} :
                     key \in DOMAIN dictionary[name]} :
              name \in DOMAIN dictionary}

(* The scalars a run can meet: those of the inputs, of the tables and of
   the punctuation maps. *)
RoundScalars(self) ==
    RoundAlphabet \cup KeyScalars(self.dictionary)
    \cup ValueScalars(self.dictionary)
    \cup {CurlyDoubleOpen, CurlyDoubleClose, CurlySingleOpen,
          CurlySingleClose, CornerOpen, CornerClose, WhiteCornerOpen,
          WhiteCornerClose}

(* a followed by b restores every text b gives for a one-scalar text. *)
Restores(self, a, b, p) ==
    \A c \in RoundScalars(self) :
        LET y == RowResult(self, <<c>>, b, p)
        IN  RowResult(self, RowResult(self, y, a, p), b, p) = y

----------------------------------------------------------------------------
(* OpenCC::jieba_cut and phrases_cut_impl, lib.rs:335-379                  *)
(*                                                                         *)
(* The ranges of split_string_ranges(input, true) are cut one by one and   *)
(* the token lists are flattened into one vector.  Above the threshold the *)
(* range list is an indexed parallel iterator: a job is split at any       *)
(* index, a worker flat-maps the ranges of its job in index order, and the *)
(* vectors of two finished neighbours are appended, in any order of        *)
(* finishing.                                                              *)

(* lib.rs:338-345: the tokens of one range, in segmenter order *)
cut_range(self, text, range, hmm) ==
    Cut(self.jieba, str_slice(text, range.start, range.end), hmm)

(* lib.rs:350-353: collect appends the vector of the right part to the
   vector of the left part *)
CollectAppendSwapped(a, b) == b \o a
CollectAppend(a, b) == a \o b

(* lib.rs:352 and 355: flat_map over the ranges lo..hi in index order *)
RECURSIVE FlatMapCut(_, _, _, _, _, _, _)
FlatMapCut(acc, self, text, rs, hmm, lo, hi) ==
    IF lo > hi THEN acc
    ELSE FlatMapCut(CollectAppend(acc, cut_range(self, text, rs[lo], hmm)),
                    self, text, rs, hmm, lo + 1, hi)

(* lib.rs:347-353: flat_map_iter and collect over the indexed range list;
   the ranges lo..hi are split in halves down to single ranges and the
   vectors of the halves appended. *)
RECURSIVE ParCollect(_, _, _, _, _, _)
ParCollect(self, text, rs, hmm, lo, hi) ==
    IF lo > hi THEN <<>>
    ELSE IF lo = hi THEN cut_range(self, text, rs[lo], hmm)
    ELSE LET mid == (lo + hi) \div 2
         IN  CollectAppend(ParCollect(self, text, rs, hmm, lo, mid),
                           ParCollect(self, text, rs, hmm, mid + 1, hi))

(* lib.rs:335-357 *)
phrases_cut_impl(self, text, hmm, use_parallel) ==
    LET rs == split_string_ranges(text, TRUE)
    IN  IF use_parallel
        THEN ParCollect(self, text, rs, hmm, 1, Len(rs))
        ELSE FlatMapCut(<<>>, self, text, rs, hmm, 1, Len(rs))

(* lib.rs:376-379 *)
jieba_cut(self, text, hmm) ==
    phrases_cut_impl(self, text, hmm, str_len(text) >= PARALLEL_THRESHOLD)

(* [String]::join, lib.rs:401 *)
RECURSIVE join(_, _)
join(parts, delimiter) ==
    IF parts = <<>> THEN <<>>
    ELSE IF Len(parts) = 1 THEN parts[1]
    ELSE parts[1] \o delimiter \o join(Tail(parts), delimiter)

(* lib.rs:400-402 *)
jieba_cut_and_join(self, text, hmm, delimiter) ==
    join(jieba_cut(self, text, hmm), delimiter)

MaxCutHead == 3

CutInit ==
    /\ pc = "cut_call"
    /\ \E head \in Texts(ParAlphabet, MaxCutHead) : input = head \o Filler
    /\ opencc \in {[jieba |-> m] : m \in ParModes}
    /\ args \in {[hmm |-> b] : b \in BOOLEAN}
    /\ ret = <<>>
    /\ dictionaries = <<>>
    /\ SplitIdle /\ TokenIdle /\ ParIdle /\ RouteIdle /\ LoadIdle
    /\ CSTR = 0 /\ threads = <<>> /\ disk = <<>> /\ zip = <<>>

cutFrame ==
    <<convVars, tokenVars, routeVars, loadVars, toolVars>>

(* lib.rs:377 and 347-353: use_parallel holds, into_par_iter *)
CutStart ==
    /\ pc = "cut_call"
    /\ str_len(input) >= PARALLEL_THRESHOLD
    /\ ranges' = split_string_ranges(input, TRUE)
    /\ jobs' = {Job(1, Len(ranges'), FALSE, <<>>)}
    /\ pc' = "cut_run"
    /\ UNCHANGED <<input, ret, inclusive, cutFrame>>

(* into_par_iter: a job of several ranges is split in two *)
CutSplit ==
    /\ pc = "cut_run"
    /\ \E j \in jobs : \E mid \in j.lo..(j.hi - 1) :
           /\ ~j.done
           /\ jobs' = (jobs \ {j}) \cup {Job(j.lo, mid, FALSE, <<>>),
                                         Job(mid + 1, j.hi, FALSE, <<>>)}
    /\ UNCHANGED <<callVars, splitVars, cutFrame>>

(* lib.rs:352: a worker flat-maps the ranges of its job *)
CutLeaf ==
    /\ pc = "cut_run"
    /\ \E j \in jobs :
           /\ ~j.done
           /\ jobs' = (jobs \ {j}) \cup
                  {Job(j.lo, j.hi, TRUE,
                       FlatMapCut(<<>>, opencc, input, ranges, args.hmm,
                                  j.lo, j.hi))}
    /\ UNCHANGED <<callVars, splitVars, cutFrame>>

(* lib.rs:353: the vectors of two finished neighbours are appended *)
CutJoin ==
    /\ pc = "cut_run"
    /\ \E a \in jobs : \E b \in jobs :
           /\ a.done /\ b.done /\ a.hi + 1 = b.lo
           /\ jobs' = (jobs \ {a, b}) \cup
                  {Job(a.lo, b.hi, TRUE, CollectAppend(a.val, b.val))}
    /\ UNCHANGED <<callVars, splitVars, cutFrame>>

(* lib.rs:350-353: the collected vector is returned *)
CutReturn ==
    /\ pc = "cut_run"
    /\ \E j \in jobs :
           /\ jobs = {j} /\ j.done
           /\ ret' = j.val
    /\ pc' = "cut_done"
    /\ UNCHANGED <<input, splitVars, parVars, cutFrame>>

(* lib.rs:355: below the threshold, the sequential flat_map *)
CutSerial ==
    /\ pc = "cut_call"
    /\ str_len(input) < PARALLEL_THRESHOLD
    /\ ranges' = split_string_ranges(input, TRUE)
    /\ ret' = FlatMapCut(<<>>, opencc, input, ranges', args.hmm,
                         1, Len(ranges'))
    /\ pc' = "cut_done"
    /\ UNCHANGED <<input, inclusive, parVars, cutFrame>>

CutNext ==
    \/ CutStart
    \/ CutSplit
    \/ CutLeaf
    \/ CutJoin
    \/ CutReturn
    \/ CutSerial

SpecCut == CutInit /\ [][CutNext]_vars

(* The tokens of the ranges ranges[1..k], range after range, each range's
   tokens as the segmenter gives them. *)
RECURSIVE TokensInOrder(_)
TokensInOrder(k) ==
    IF k = 0 THEN <<>>
    ELSE TokensInOrder(k - 1) \o
         Cut(opencc.jieba, str_slice(input, ranges[k].start, ranges[k].end),
             args.hmm)

(* C26: jieba_cut returns the tokens of all ranges in range order and,
   within a range, in segmenter order; the vector is the same in the
   parallel and in the serial regime, whatever the splitting of the range
   list and the order in which workers finish; and, the segmenter's tokens
   concatenating to its chunk, the returned tokens concatenated are the
   input. *)
C26_TokensInOrder ==
    pc = "cut_done" =>
        /\ ret = TokensInOrder(Len(ranges))
        /\ ret = jieba_cut(opencc, input, args.hmm)
        /\ Concat(ret, 1, Len(ret)) = input

C26_Witness ==
    /\ pc = "cut_done"
    /\ str_len(input) >= PARALLEL_THRESHOLD
    /\ Len(ranges) >= 3
    /\ Len(ret) > Len(ranges)
    /\ ret = TokensInOrder(Len(ranges))
    /\ \E j \in jobs : j.lo = 1 /\ j.hi = Len(ranges) /\ j.done

----------------------------------------------------------------------------
(* The C entry points, capi/opencc_jieba_capi/src/lib.rs:62-350            *)
(*                                                                         *)
(* A C string argument is a null pointer or a pointer to the bytes before  *)
(* the terminating NUL; the instance argument is a null pointer or a       *)
(* pointer to the OpenCC object of the process.  A pointer result is a     *)
(* null pointer or a pointer to what was allocated; an integer result is   *)
(* a record of the code and of what was written through the out pointers.  *)

NullPtr == [null |-> TRUE]
CPtr(v) == [null |-> FALSE, val |-> v]

(* core::str::from_utf8, the width announced by a leading byte; 0 for a
   byte that cannot lead *)
utf8_char_width(b) ==
    IF b < 128 THEN 1
    ELSE IF b >= 194 /\ b <= 223 THEN 2
    ELSE IF b >= 224 /\ b <= 239 THEN 3
    ELSE IF b >= 240 /\ b <= 244 THEN 4
    ELSE 0

(* core::str::from_utf8, the range allowed to the second byte *)
SecondByteOk(first, second) ==
    IF first = 224 THEN second >= 160 /\ second <= 191
    ELSE IF first = 237 THEN second >= 128 /\ second <= 159
    ELSE IF first = 240 THEN second >= 144 /\ second <= 191
    ELSE IF first = 244 THEN second >= 128 /\ second <= 143
    ELSE second >= 128 /\ second <= 191

(* the scalar encoded by the w bytes at the head of bytes *)
DecodeScalar(bytes, w) ==
    IF w = 1 THEN bytes[1]
    ELSE IF w = 2 THEN (bytes[1] - 192) * 64 + (bytes[2] - 128)
    ELSE IF w = 3 THEN (bytes[1] - 224) * 4096 + (bytes[2] - 128) * 64
                       + (bytes[3] - 128)
    ELSE (bytes[1] - 240) * 262144 + (bytes[2] - 128) * 4096
         + (bytes[3] - 128) * 64 + (bytes[4] - 128)

(* CStr::to_str, lib.rs:74, 79, 100: the text of the bytes, or an error when
   they are not UTF-8 *)
RECURSIVE to_str(_)
to_str(bytes) ==
    IF bytes = <<>> THEN Ok(<<>>)
    ELSE LET w == utf8_char_width(bytes[1])
         IN  IF w = 0 \/ Len(bytes) < w THEN Err
             ELSE IF w >= 2 /\ ~SecondByteOk(bytes[1], bytes[2]) THEN Err
             ELSE IF \E i \in 3..w : ~IsContinuation(bytes[i]) THEN Err
             ELSE LET rest == to_str(SubSeq(bytes, w + 1, Len(bytes)))
                  IN  IF rest.ok
                      THEN Ok(<<DecodeScalar(bytes, w)>> \o rest.val)
                      ELSE Err

(* CString::new, lib.rs:85: an interior NUL is an error *)
CString_new(text) ==
    IF \E i \in 1..Len(text) : text[i] = 0 THEN Err ELSE Ok(as_bytes(text))

(* CString::new(..) then into_raw, or the null pointer, lib.rs:85-88 *)
IntoRawOrNull(text) ==
    IF CString_new(text).ok THEN CPtr(CString_new(text).val) ELSE NullPtr

(* lib.rs:427-455, vec_to_cstr_ptr: the array of the strings as C strings,
   an interior NUL giving the empty string; null when malloc fails *)
vec_to_cstr_ptr(vec, malloc_ok) ==
    IF ~malloc_ok THEN NullPtr
    ELSE CPtr([i \in 1..Len(vec) |->
                  IF CString_new(vec[i]).ok THEN CString_new(vec[i]).val
                  ELSE <<>>])

(* "textrank" and "tfidf", lib.rs:231-232 *)
Method_textrank == <<116, 101, 120, 116, 114, 97, 110, 107>>
Method_tfidf == <<116, 102, 105, 100, 102>>

(* lib.rs:949 of the library, input.replace(|c| c == '\n' || c == '\r', "") *)
remove_newlines(text) ==
    SelectSeq(text, LAMBDA ch : ch # LineFeed /\ ch # CarriageReturn)

(* The extractors of the segmenter crate (TextRank, TfIdf): the model takes
   the first top_k non-empty tokens of the cleaned input, weighted by
   rank. *)
extract_keywords(jb, text, top_k) ==
    LET toks == SelectSeq(Cut(jb, text, TRUE), LAMBDA t : t # <<>>)
    IN  [i \in 1..Min(top_k, Len(toks)) |->
            [keyword |-> toks[i], weight |-> Len(toks) - i + 1]]

(* lib.rs:947-960 and 1016-1023 of the library *)
keyword_weight(self, text, top_k) ==
    extract_keywords(self.jieba, remove_newlines(text), top_k)

(* lib.rs:908-921 and 981-987 of the library *)
keyword_extract(self, text, top_k) ==
    LET kws == keyword_weight(self, text, top_k)
    IN  [i \in 1..Len(kws) |-> kws[i].keyword]

RetInt(code, out_len, out_keywords, out_weights) ==
    [code |-> code, out_len |-> out_len, out_keywords |-> out_keywords,
     out_weights |-> out_weights]
Unwritten == [written |-> FALSE]

(* lib.rs:91-111 *)
opencc_jieba_cut(instance, c_input, hmm, malloc_ok) ==
    IF instance = NullPtr \/ c_input = NullPtr THEN NullPtr
    ELSE IF ~to_str(c_input.val).ok THEN NullPtr
    ELSE vec_to_cstr_ptr(jieba_cut(instance.val, to_str(c_input.val).val,
                                   hmm), malloc_ok)

(* lib.rs:134-148, the loop over the array up to its first null element:
   the parts joined, or an error at a part that is not UTF-8 *)
RECURSIVE JoinLoop(_, _, _, _)
JoinLoop(result, strings, delimiter_str, i) ==
    IF i > Len(strings) \/ strings[i] = NullPtr THEN Ok(result)
    ELSE IF ~to_str(strings[i].val).ok THEN Err
    ELSE JoinLoop(result \o (IF i > 1 THEN delimiter_str ELSE <<>>)
                         \o to_str(strings[i].val).val,
                  strings, delimiter_str, i + 1)

(* lib.rs:117-155 *)
opencc_jieba_join_str(strings, delimiter) ==
    IF strings = NullPtr \/ delimiter = NullPtr THEN NullPtr
    ELSE IF ~to_str(delimiter.val).ok THEN NullPtr
    ELSE LET joined == JoinLoop(<<>>, strings.val, to_str(delimiter.val).val,
                                1)
         IN  IF joined.ok THEN IntoRawOrNull(joined.val) ELSE NullPtr

(* lib.rs:157-185 *)
opencc_jieba_cut_and_join(instance, c_input, hmm, delimiter) ==
    IF instance = NullPtr \/ c_input = NullPtr \/ delimiter = NullPtr
    THEN NullPtr
    ELSE IF ~to_str(c_input.val).ok THEN NullPtr
    ELSE IF ~to_str(delimiter.val).ok THEN NullPtr
    ELSE IntoRawOrNull(join(jieba_cut(instance.val,
                                      to_str(c_input.val).val, hmm),
                            to_str(delimiter.val).val))

(* Result::unwrap_or, lib.rs:201 *)
unwrap_or(result, default) == IF result.ok THEN result.val ELSE default

(* a panic that reaches the boundary of an extern "C" function ends the
   process: the call does not return *)
Aborted == [aborted |-> TRUE]

(* lib.rs:187-205 *)
opencc_jieba_zho_check(instance, c_input) ==
    IF instance = NullPtr \/ c_input = NullPtr
    THEN RetInt(-1, Unwritten, Unwritten, Unwritten)
    ELSE LET c_str == unwrap_or(to_str(c_input.val), <<>>)
             code == zho_check(instance.val, c_str)
         IN  IF code = Panic THEN Aborted
             ELSE RetInt(code[1], Unwritten, Unwritten, Unwritten)

(* lib.rs:207-240 *)
opencc_jieba_keywords(instance, c_input, top_k, method, malloc_ok) ==
    IF instance = NullPtr \/ c_input = NullPtr \/ method = NullPtr
    THEN NullPtr
    ELSE IF ~to_str(c_input.val).ok THEN NullPtr
    ELSE IF ~to_str(method.val).ok THEN NullPtr
    ELSE IF to_str(method.val).val \notin {Method_textrank, Method_tfidf}
    THEN NullPtr
    ELSE vec_to_cstr_ptr(keyword_extract(instance.val,
                                         to_str(c_input.val).val, top_k),
                         malloc_ok)

(* lib.rs:246-350 *)
opencc_jieba_keywords_and_weights(instance, c_input, top_k, method, out_len, out_keywords, out_weights, malloc_ok) ==
    IF \/ instance = NullPtr \/ c_input = NullPtr \/ method = NullPtr
       \/ out_len = NullPtr \/ out_keywords = NullPtr
       \/ out_weights = NullPtr
    THEN RetInt(-1, Unwritten, Unwritten, Unwritten)
    ELSE IF ~to_str(c_input.val).ok
    THEN RetInt(-1, Unwritten, Unwritten, Unwritten)
    ELSE IF ~to_str(method.val).ok
    THEN RetInt(-1, Unwritten, Unwritten, Unwritten)
    ELSE IF to_str(method.val).val \notin {Method_textrank, Method_tfidf}
    THEN RetInt(-1, Unwritten, Unwritten, Unwritten)
    ELSE LET keywords == keyword_weight(instance.val,
                                        to_str(c_input.val).val, top_k)
             n == Len(keywords)
         IN  IF n = 0 THEN RetInt(0, 0, NullPtr, NullPtr)
             ELSE IF ~malloc_ok THEN RetInt(-1, n, NullPtr, NullPtr)
             ELSE IF \E i \in 1..n : ~CString_new(keywords[i].keyword).ok
             THEN RetInt(-1, n, NullPtr, NullPtr)
             ELSE RetInt(0, n,
                         CPtr([i \in 1..n |->
                                  CString_new(keywords[i].keyword).val]),
                         CPtr([i \in 1..n |-> keywords[i].weight]))
MaxFfiText == 1
FfiAlphabet == {W0, W1, FullComma}
FfiSeeds == {1, 5}

(* bytes that are not UTF-8: a byte that cannot lead, a three-byte
   sequence cut short, a continuation byte with nothing to continue *)
BadBytes == {<<255>>, <<228, 189>>, <<LatinA, 128>>}

CStrings(texts) ==
    {NullPtr} \cup {CPtr(b) : b \in BadBytes}
              \cup {CPtr(as_bytes(t)) : t \in texts}

CInputs == CStrings(Texts(FfiAlphabet, MaxFfiText))
CConfigs == CStrings(ConfigNames \cup {<<83, 50, 84>>, <<115, 50>>})
CDelimiters == CStrings({<<>>, <<47>>})
CMethods == CStrings({Method_textrank, Method_tfidf, Name_s2t})
CElements == {NullPtr, CPtr(<<255>>), CPtr(<<LatinA>>)}
CArrays ==
    {NullPtr} \cup {CPtr(<<>>)} \cup {CPtr(<<e>>) : e \in CElements}
              \cup {CPtr(<<e, f>>) : e \in CElements, f \in CElements}
OutPtrs == {NullPtr, CPtr(<<>>)}

NoArgs ==
    [fn |-> "none", instance |-> NullPtr, input |-> NullPtr,
     config |-> NullPtr, delimiter |-> NullPtr, method |-> NullPtr,
     strings |-> NullPtr, flag |-> FALSE, top_k |-> 0,
     out_len |-> NullPtr, out_keywords |-> NullPtr, out_weights |-> NullPtr,
     malloc_ok |-> TRUE]

(* the arguments a caller may pass to each entry point *)
CallsOf(self) ==
    LET Instances == {NullPtr, CPtr(self)}
    IN  {[NoArgs EXCEPT !.fn = "convert", !.instance = i, !.input = t,
                        !.config = c, !.flag = b] :
            i \in Instances, t \in CInputs, c \in CConfigs, b \in BOOLEAN}
        \cup
        {[NoArgs EXCEPT !.fn = "cut", !.instance = i, !.input = t,
                        !.flag = b, !.malloc_ok = m] :
            i \in Instances, t \in CInputs, b \in BOOLEAN, m \in BOOLEAN}
        \cup
        {[NoArgs EXCEPT !.fn = "join_str", !.strings = a, !.delimiter = d] :
            a \in CArrays, d \in CDelimiters}
        \cup
        {[NoArgs EXCEPT !.fn = "cut_and_join", !.instance = i, !.input = t,
                        !.flag = b, !.delimiter = d] :
            i \in Instances, t \in CInputs, b \in BOOLEAN,
            d \in CDelimiters}
        \cup
        {[NoArgs EXCEPT !.fn = "zho_check", !.instance = i, !.input = t] :
            i \in Instances, t \in CInputs}
        \cup
        {[NoArgs EXCEPT !.fn = "keywords", !.instance = i, !.input = t,
                        !.top_k = k, !.method = c, !.malloc_ok = m] :
            i \in Instances, t \in CInputs, k \in {0, 2}, c \in CMethods,
            m \in BOOLEAN}
        \cup
        {[NoArgs EXCEPT !.fn = "keywords_and_weights", !.instance = i,
                        !.input = t, !.top_k = k, !.method = c,
                        !.out_len = ol, !.out_keywords = ok,
                        !.out_weights = ow, !.malloc_ok = m] :
            i \in Instances, t \in CInputs, k \in {0, 2}, c \in CMethods,
            ol \in OutPtrs, ok \in OutPtrs, ow \in OutPtrs, m \in BOOLEAN}

FfiInit ==
    /\ pc = "ffi_call"
    /\ opencc \in {OpenCC(s) : s \in FfiSeeds}
    /\ args \in CallsOf(opencc)
    /\ input = <<>>
    /\ ret = <<>>
    /\ dictionaries = <<>>
    /\ SplitIdle /\ TokenIdle /\ ParIdle /\ RouteIdle /\ LoadIdle
    /\ CSTR = 0 /\ threads = <<>> /\ disk = <<>> /\ zip = <<>>

(* an entry point returns to its caller *)
FfiReturn(value) ==
    /\ ret' = value
    /\ pc' = "ffi_done"
    /\ UNCHANGED <<input, splitVars, convVars, tokenVars, parVars, routeVars,
                   loadVars, toolVars>>

(* lib.rs:62-83: the null checks and the decoding of opencc_jieba_convert,
   up to the call of OpenCC::convert on the instance *)
FfiConvert ==
    /\ pc = "ffi_call" /\ args.fn = "convert"
    /\ IF \/ args.instance = NullPtr \/ args.input = NullPtr
          \/ args.config = NullPtr
       THEN FfiReturn(NullPtr)
       ELSE IF ~to_str(args.config.val).ok \/ ~to_str(args.input.val).ok
       THEN FfiReturn(NullPtr)
       ELSE /\ input' = to_str(args.input.val).val
            /\ config' = to_str(args.config.val).val
            /\ punctuation' = args.flag
            /\ pc' = "convert_call"
            /\ UNCHANGED <<ret, splitVars, convVars, tokenVars, parVars,
                           loadVars, toolVars>>

(* lib.rs:83-88: the converted text leaves as a C string *)
FfiConvertReturn ==
    /\ pc = "convert_done" /\ args.fn = "convert"
    /\ FfiReturn(IntoRawOrNull(ret))

FfiCut ==
    /\ pc = "ffi_call" /\ args.fn = "cut"
    /\ FfiReturn(opencc_jieba_cut(args.instance, args.input, args.flag,
                                  args.malloc_ok))

FfiJoinStr ==
    /\ pc = "ffi_call" /\ args.fn = "join_str"
    /\ FfiReturn(opencc_jieba_join_str(args.strings, args.delimiter))

FfiCutAndJoin ==
    /\ pc = "ffi_call" /\ args.fn = "cut_and_join"
    /\ FfiReturn(opencc_jieba_cut_and_join(args.instance, args.input,
                                           args.flag, args.delimiter))

FfiZhoCheck ==
    /\ pc = "ffi_call" /\ args.fn = "zho_check"
    /\ LET value == opencc_jieba_zho_check(args.instance, args.input)
       IN  IF value = Aborted
           THEN /\ pc' = "ffi_aborted"
                /\ UNCHANGED <<input, ret, splitVars, convVars, tokenVars,
                               parVars, routeVars, loadVars, toolVars>>
           ELSE FfiReturn(value)

FfiKeywords ==
    /\ pc = "ffi_call" /\ args.fn = "keywords"
    /\ FfiReturn(opencc_jieba_keywords(args.instance, args.input, args.top_k,
                                       args.method, args.malloc_ok))

FfiKeywordsAndWeights ==
    /\ pc = "ffi_call" /\ args.fn = "keywords_and_weights"
    /\ FfiReturn(opencc_jieba_keywords_and_weights(
                     args.instance, args.input, args.top_k, args.method,
                     args.out_len, args.out_keywords, args.out_weights,
                     args.malloc_ok))

FfiNext ==
    \/ FfiConvert
    \/ ConvertNext
    \/ FfiConvertReturn
    \/ FfiCut
    \/ FfiJoinStr
    \/ FfiCutAndJoin
    \/ FfiZhoCheck
    \/ FfiKeywords
    \/ FfiKeywordsAndWeights

SpecFfi == FfiInit /\ [][FfiNext]_vars

(* Whether some pointer argument of the call is null, and its text
   arguments that are not null: for join_str the delimiter and the elements
   of the array before its terminating null. *)
NullArgument ==
    IF args.fn = "join_str" THEN args.strings.null \/ args.delimiter.null
    ELSE \/ args.instance.null \/ args.input.null
         \/ args.fn = "convert" /\ args.config.null
         \/ args.fn = "cut_and_join" /\ args.delimiter.null
         \/ args.fn \in {"keywords", "keywords_and_weights"}
            /\ args.method.null
         \/ args.fn = "keywords_and_weights"
            /\ (\/ args.out_len.null \/ args.out_keywords.null
                \/ args.out_weights.null)

ArrayElements ==
    IF args.fn = "join_str" /\ ~args.strings.null
    THEN LET a == args.strings.val
         IN  {a[i] : i \in {k \in 1..Len(a) :
                               \A j \in 1..k : ~a[j].null}}
    ELSE {}

TextArgs ==
    {p \in ({args.input, args.config, args.delimiter, args.method}
            \cup ArrayElements) : ~p.null}

BadCall ==
    \/ NullArgument
    \/ \E p \in TextArgs : ~to_str(p.val).ok

IntegerEntry == args.fn \in {"zho_check", "keywords_and_weights"}

ErrorResult == IF IntegerEntry THEN ret.code < 0 ELSE ret.null

(* C21: every C entry point that takes text, when a pointer argument is
   null or a text argument is not valid UTF-8, reports a null pointer (the
   pointer-returning entry points) or a negative code (the
   integer-returning ones), never a regular result. *)
C21_NullOrInvalidRejected ==
    (pc = "ffi_done" /\ BadCall) => ErrorResult

(* The same, the integer-returning opencc_jieba_zho_check left aside. *)
FfiStrictElsewhere ==
    (pc = "ffi_done" /\ BadCall /\ args.fn # "zho_check") => ErrorResult

FfiRegularResult ==
    pc = "ffi_done" /\ ~BadCall /\ ~ErrorResult

----------------------------------------------------------------------------
(* The convert and segment commands, tools/opencc-jieba/src/main.rs        *)
(*                                                                         *)
(* A command line is the record of its options; text is what the input     *)
(* file or stdin decodes to.  The written output is the record of the      *)
(* encoding and of the text encoded.                                       *)

Bom == 65279

(* "UTF-8", "utf-8", "GBK" and an unsupported label *)
Enc_UTF8 == <<85, 84, 70, 45, 56>>
Enc_utf8 == <<117, 116, 102, 45, 56>>
Enc_GBK == <<71, 66, 75>>
Enc_none == <<88>>

(* str::to_ascii_lowercase *)
to_ascii_lowercase(text) ==
    [i \in 1..Len(text) |->
        IF text[i] >= 65 /\ text[i] <= 90 THEN text[i] + 32 ELSE text[i]]

(* str::eq_ignore_ascii_case *)
eq_ignore_ascii_case(a, b) == to_ascii_lowercase(a) = to_ascii_lowercase(b)

(* Encoding::for_label, main.rs:83 and 141: whether the label names an
   encoding *)
for_label(label) ==
    to_ascii_lowercase(label) \in {Enc_utf8, to_ascii_lowercase(Enc_GBK)}

(* main.rs:21-96: the decoded input, or an error on an unsupported label *)
read_input(text, in_enc) ==
    IF in_enc = Enc_UTF8 THEN Ok(text)
    ELSE IF ~for_label(in_enc) THEN Err
    ELSE Ok(text)

(* main.rs:98-100 *)
should_remove_bom(in_enc, out_enc) ==
    eq_ignore_ascii_case(in_enc, Enc_utf8)
    /\ ~eq_ignore_ascii_case(out_enc, Enc_utf8)

(* String::drain(..end), main.rs:104: end is a byte offset, and the call
   panics when it is not on a character boundary *)
drain_to(s, end) ==
    IF ~is_char_boundary(s, end) THEN Panic
    ELSE str_slice(s, end, str_len(s))

(* main.rs:102-106 *)
remove_utf8_bom_str_inplace(s) ==
    IF starts_with(s, Bom) THEN drain_to(s, 1) ELSE s

(* main.rs:108-110: replace("\r\n", "\n") then replace('\r', "\n") *)
RECURSIVE ReplaceCrLf(_)
ReplaceCrLf(s) ==
    IF s = <<>> THEN <<>>
    ELSE IF Len(s) >= 2 /\ s[1] = CarriageReturn /\ s[2] = LineFeed
    THEN <<LineFeed>> \o ReplaceCrLf(SubSeq(s, 3, Len(s)))
    ELSE <<s[1]>> \o ReplaceCrLf(Tail(s))

normalize_line_endings(s) ==
    LET t == ReplaceCrLf(s)
    IN  [i \in 1..Len(t) |->
            IF t[i] = CarriageReturn THEN LineFeed ELSE t[i]]

(* main.rs:112-145: the content, with a final newline on stdout when it has
   none, in the output encoding *)
write_output(output_file, out_enc, content) ==
    LET text == IF ~output_file
                   /\ (content = <<>> \/ content[Len(content)] # LineFeed)
                THEN content \o <<LineFeed>> ELSE content
    IN  IF out_enc = Enc_UTF8 THEN Ok([encoding |-> out_enc, text |-> text])
        ELSE IF ~for_label(out_enc) THEN Err
        ELSE Ok([encoding |-> to_ascii_lowercase(out_enc), text |-> text])

(* main.rs:298-301 and 405-409: the input as read, the BOM removed when the
   encodings ask for it *)
InputAfterBom(text, in_enc, out_enc) ==
    IF should_remove_bom(in_enc, out_enc)
    THEN remove_utf8_bom_str_inplace(text)
    ELSE text

MaxCliText == 2
CliAlphabet == {Bom, W1, CarriageReturn}
Encodings == {Enc_UTF8, Enc_utf8, Enc_GBK, Enc_none}
(* OpenCC::new(), main.rs:303 and 416 *)
CliOpenCC == OpenCC(5)

CommandLines ==
    {[command |-> "convert", input_file |-> f, output_file |-> o,
      config |-> c, punct |-> p, delimiter |-> <<>>, in_enc |-> ie,
      out_enc |-> oe, text |-> t] :
        f \in BOOLEAN, o \in BOOLEAN, c \in ConfigNames, p \in BOOLEAN,
        ie \in Encodings, oe \in Encodings,
        t \in Texts(CliAlphabet, MaxCliText)}
    \cup
    {[command |-> "segment", input_file |-> f, output_file |-> o,
      config |-> <<>>, punct |-> FALSE, delimiter |-> d, in_enc |-> ie,
      out_enc |-> oe, text |-> t] :
        f \in BOOLEAN, o \in BOOLEAN, d \in {<<47>>, <<Space>>},
        ie \in Encodings, oe \in Encodings,
        t \in Texts(CliAlphabet, MaxCliText)}

CliInit ==
    /\ pc = "cli_call"
    /\ args \in CommandLines
    /\ opencc = CliOpenCC
    /\ input = <<>>
    /\ ret = <<>>
    /\ dictionaries = <<>>
    /\ SplitIdle /\ TokenIdle /\ ParIdle /\ RouteIdle /\ LoadIdle
    /\ CSTR = 0 /\ threads = <<>> /\ disk = <<>> /\ zip = <<>>

(* the command ends without handing anything on *)
CliStop(at) ==
    /\ pc' = at
    /\ UNCHANGED <<input, ret, splitVars, convVars, tokenVars, parVars,
                   routeVars, loadVars, toolVars>>

(* main.rs:284-303, handle_convert up to the call of OpenCC::convert *)
CliConvert ==
    /\ pc = "cli_call" /\ args.command = "convert"
    /\ IF ~read_input(args.text, args.in_enc).ok THEN CliStop("cli_failed")
       ELSE LET input_str == InputAfterBom(read_input(args.text,
                                                      args.in_enc).val,
                                           args.in_enc, args.out_enc)
            IN  IF input_str = Panic THEN CliStop("cli_panicked")
                ELSE /\ input' = input_str
                     /\ config' = args.config
                     /\ punctuation' = args.punct
                     /\ pc' = "convert_call"
                     /\ UNCHANGED <<ret, splitVars, convVars, tokenVars,
                                    parVars, loadVars, toolVars>>

(* main.rs:304-312, handle_convert after the conversion *)
CliConvertWrite ==
    /\ pc = "convert_done" /\ args.command = "convert"
    /\ LET written == write_output(args.output_file, args.out_enc, ret)
       IN  /\ ret' = written
           /\ pc' = IF written.ok THEN "cli_done" ELSE "cli_failed"
    /\ UNCHANGED <<input, splitVars, convVars, tokenVars, parVars, routeVars,
                   loadVars, toolVars>>

(* main.rs:399-426, handle_segment *)
CliSegment ==
    /\ pc = "cli_call" /\ args.command = "segment"
    /\ IF ~read_input(args.text, args.in_enc).ok THEN CliStop("cli_failed")
       ELSE LET read == InputAfterBom(read_input(args.text, args.in_enc).val,
                                      args.in_enc, args.out_enc)
            IN  IF read = Panic THEN CliStop("cli_panicked")
                ELSE LET input_str == IF ~args.input_file
                                      THEN normalize_line_endings(read)
                                      ELSE read
                         written ==
                             write_output(args.output_file, args.out_enc,
                                          jieba_cut_and_join(
                                              opencc, input_str, TRUE,
                                              args.delimiter))
                     IN  /\ input' = input_str
                         /\ ret' = written
                         /\ pc' = IF written.ok THEN "cli_done"
                                  ELSE "cli_failed_write"
                         /\ UNCHANGED <<splitVars, convVars, tokenVars,
                                        parVars, routeVars, loadVars,
                                        toolVars>>

CliNext ==
    \/ CliConvert
    \/ ConvertS2t \/ ConvertS2tw \/ ConvertS2twp \/ ConvertS2hk
    \/ ConvertT2s \/ ConvertT2tw \/ ConvertT2twp \/ ConvertT2hk
    \/ ConvertTw2s \/ ConvertTw2sp \/ ConvertTw2t \/ ConvertTw2tp
    \/ ConvertHk2s \/ ConvertHk2t \/ ConvertJp2t \/ ConvertT2jp
    \/ CliConvertWrite
    \/ CliSegment

SpecCli == CliInit /\ [][CliNext]_vars

(* The input was read, and a text was handed to the converter or to the
   segmenter. *)
InputRead == pc # "cli_call" /\ read_input(args.text, args.in_enc).ok
HandedOn ==
    pc \in {"convert_call", "convert_done", "cli_done", "cli_failed_write"}
    \/ (pc = "cli_failed" /\ InputRead)

RemovalCase ==
    /\ to_ascii_lowercase(args.in_enc) = Enc_utf8
    /\ to_ascii_lowercase(args.out_enc) # Enc_utf8
    /\ args.text # <<>> /\ args.text[1] = Bom

(* C22: in the convert and segment commands, when the input encoding is
   UTF-8, the output encoding is not and the input begins with U+FEFF, the
   text handed on is the input without that whole leading scalar, the rest
   unchanged, and the command goes on to completion; in every other case
   the input is handed on unchanged. *)
C22_BomRemovedWhole ==
    InputRead =>
        IF RemovalCase
        THEN HandedOn /\ input = Tail(args.text)
        ELSE HandedOn /\ input = args.text

(* The removal case alone: the command never panics on a leading U+FEFF. *)
CliNeverPanics == pc # "cli_panicked"

(* Outside the removal case the convert command hands the input on
   unchanged. *)
CliConvertUnchanged ==
    (InputRead /\ ~RemovalCase /\ args.command = "convert") =>
        HandedOn /\ input = args.text

(* Outside the removal case the segment command hands the input on
   unchanged. *)
CliSegmentUnchanged ==
    (InputRead /\ ~RemovalCase /\ args.command = "segment") =>
        HandedOn /\ input = args.text

----------------------------------------------------------------------------
(* OpenccConfig and its parser, opencc_config.rs:19-127                    *)

(* opencc_config.rs:22-84: the variants in the order of their
   discriminants, S2t = 1 to T2jp = 16, each under the name it parses
   from *)
OpenccConfig ==
    <<Name_s2t, Name_s2tw, Name_s2twp, Name_s2hk, Name_t2s, Name_t2tw,
      Name_t2twp, Name_t2hk, Name_tw2s, Name_tw2sp, Name_tw2t, Name_tw2tp,
      Name_hk2s, Name_hk2t, Name_jp2t, Name_t2jp>>

(* opencc_config.rs:105-126, TryFrom<&str>: the discriminant of the variant,
   or Err(()) *)
try_from(s) ==
    LET lowered == to_ascii_lowercase(s)
    IN  IF \E v \in 1..Len(OpenccConfig) : OpenccConfig[v] = lowered
        THEN Ok(CHOOSE v \in 1..Len(OpenccConfig) : OpenccConfig[v] = lowered)
        ELSE Err

MaxConfigText == 1
ConfigSeeds == {2, 7}

ConfigInit ==
    /\ pc = "convert_call"
    /\ input \in Texts(ConvAlphabet, MaxConfigText)
    /\ opencc \in {OpenCC(s) : s \in ConfigSeeds}
    /\ config \in ConfigPool
    /\ punctuation \in BOOLEAN
    /\ dictionaries = <<>>
    /\ ret = <<>>
    /\ args = [called |-> FALSE]
    /\ SplitIdle /\ TokenIdle /\ ParIdle /\ LoadIdle
    /\ CSTR = 0 /\ threads = <<>> /\ disk = <<>> /\ zip = <<>>

(* opencc_config.rs:105-126: the caller parses the config string it also
   passes to convert *)
TryFrom ==
    /\ ~args.called
    /\ args' = [called |-> TRUE, parsed |-> try_from(config)]
    /\ UNCHANGED <<callVars, splitVars, convVars, tokenVars, parVars,
                   routeVars, loadVars, CSTR, threads, disk, zip>>

ConfigNext ==
    \/ ConvertNext
    \/ TryFrom

SpecConfig == ConfigInit /\ [][ConfigNext]_vars

(* Both the parser and convert have run on the config string. *)
BothRan == pc = "convert_done" /\ args.called

(* C23: convert and try_from accept the same config strings: a string
   try_from accepts is converted by the configuration try_from selects,
   each of the sixteen names in any letter case is accepted by both, and a
   string try_from rejects makes convert return the Invalid config
   payload. *)
C23_SameConfigStrings ==
    BothRan =>
        /\ args.parsed.ok =>
               ret = RowResult(opencc, input, OpenccConfig[args.parsed.val],
                               punctuation)
        /\ to_ascii_lowercase(config) \in ConfigNames => args.parsed.ok
        /\ ~args.parsed.ok => ret = InvalidConfig(config)

(* On config strings of ASCII scalars the two agree. *)
ConfigAsciiAgree ==
    (BothRan /\ \A i \in 1..Len(config) : config[i] < 128) =>
        /\ args.parsed.ok =>
               ret = RowResult(opencc, input, OpenccConfig[args.parsed.val],
                               punctuation)
        /\ ~args.parsed.ok => ret = InvalidConfig(config)

----------------------------------------------------------------------------
(* convert_by_char on its own and as the fallback of phrases_cut_convert,  *)
(* lib.rs:266-287, 207-208 and 731-747                                     *)

MaxByCharText == 3
ByCharAlphabet == {W0, W1, FullComma}

(* dictionaries with single-scalar keys, a delimiter among them, and a
   two-scalar phrase *)
ByCharPool ==
    {(<<W0>> :> <<W1>>) @@ (<<FullComma>> :> <<Comma>>)
         @@ (<<W0, W1>> :> <<W2>>),
     (<<W0>> :> <<W2, W2>>) @@ (<<W1>> :> <<W0, W0>>),
     (<<W1, FullComma>> :> <<W2>>)}

ByCharInit ==
    /\ pc = "by_char_call"
    /\ input \in Texts(ByCharAlphabet, MaxByCharText)
    /\ opencc \in {[jieba |-> m] : m \in 1..2}
    /\ dictionaries \in DictLists(ByCharPool, MaxDicts)
    /\ ret = <<>>
    /\ SplitIdle /\ TokenIdle /\ ParIdle /\ RouteIdle /\ LoadIdle
    /\ ToolIdle

(* lib.rs:266-287, called as in st and ts (lib.rs:731-747): the text
   appended to an empty output *)
ByCharCall ==
    /\ pc = "by_char_call"
    /\ ret' = convert_by_char(input, dictionaries)
    /\ pc' = "by_char_done"
    /\ UNCHANGED <<input, splitVars, convVars, tokenVars, parVars, routeVars,
                   loadVars, toolVars>>

(* lib.rs:173-234: phrases_cut_convert with the same dictionary list *)
ByCharPhrases ==
    /\ pc = "by_char_call"
    /\ ret' = phrases_cut_convert(opencc, input, dictionaries, TRUE)
    /\ pc' = "phrases_done"
    /\ UNCHANGED <<input, splitVars, convVars, tokenVars, parVars, routeVars,
                   loadVars, toolVars>>

ByCharNext ==
    \/ ByCharCall
    \/ ByCharPhrases

SpecByChar == ByCharInit /\ [][ByCharNext]_vars

(* The dictionaries of the list that have the key. *)
Holders(dicts, key) == {i \in 1..Len(dicts) : key \in DOMAIN dicts[i]}

(* The first holder's value for the key, the key itself when none has it. *)
FirstOr(dicts, key) ==
    IF Holders(dicts, key) = {} THEN key
    ELSE dicts[CHOOSE i \in Holders(dicts, key) :
                   \A j \in Holders(dicts, key) : i <= j][key]

(* Every scalar of s on its own, in input order. *)
RECURSIVE ScalarByScalar(_, _)
ScalarByScalar(s, dicts) ==
    IF s = <<>> THEN <<>>
    ELSE FirstOr(dicts, <<Head(s)>>) \o ScalarByScalar(Tail(s), dicts)

(* What a token of phrases_cut_convert becomes when its fallback is the
   scalar-by-scalar mapping under the list of the phrase lookup. *)
TokenExpected(tok, dicts) ==
    IF IsSingleDelimiter(tok) THEN tok
    ELSE IF Holders(dicts, tok) # {} THEN FirstOr(dicts, tok)
    ELSE ScalarByScalar(tok, dicts)

(* C24: convert_by_char maps each scalar of its input independently, to
   the value of the first dictionary of the ordered list that has the
   single-scalar key and to the scalar itself when none has it, in input
   order, with no segmentation and no delimiter handling; as the fallback
   of phrases_cut_convert it uses the list of the phrase lookup. *)
C24_ScalarByScalar ==
    /\ pc = "by_char_done" => ret = ScalarByScalar(input, dictionaries)
    /\ pc = "phrases_done" =>
           LET toks == jieba_cut(opencc, input, TRUE)
           IN  ret = Concat([j \in 1..Len(toks) |->
                                TokenExpected(toks[j], dictionaries)],
                            1, Len(toks))

(* a delimiter with an entry is mapped, a phrase key spanning two scalars of
   the input is not applied, and the second dictionary serves a scalar the
   first lacks while the first wins where both have it *)
C24_Witness ==
    /\ pc = "by_char_done"
    /\ Len(dictionaries) = 2
    /\ input = <<W0, W1, FullComma>>
    /\ <<W0, W1>> \in DOMAIN dictionaries[1]
    /\ <<W0>> \in DOMAIN dictionaries[1] /\ <<W0>> \in DOMAIN dictionaries[2]
    /\ <<W1>> \notin DOMAIN dictionaries[1]
    /\ ret = <<W1, W0, W0, Comma>>

----------------------------------------------------------------------------
(* The body of the token loop on one token, lib.rs:189-214                 *)

MaxEmitToken == 2
EmitAlphabet == {W0, Comma, FullComma}

(* dictionaries with entries for single delimiters and for tokens made of
   delimiters only *)
EmitPool ==
    {(<<FullComma>> :> <<Comma>>) @@ (<<FullComma, FullComma>> :> <<W0>>),
     (<<W0>> :> <<W1>>) @@ (<<FullComma, Comma>> :> <<W1>>),
     (<<Comma>> :> <<FullComma>>) @@ (<<FullComma>> :> <<W2>>)}

EmitInit ==
    /\ pc = "emit_call"
    /\ input \in Texts(EmitAlphabet, MaxEmitToken)
    /\ dictionaries \in DictLists(EmitPool, MaxDicts)
    /\ opencc = [jieba |-> 1]
    /\ ret = <<>>
    /\ SplitIdle /\ TokenIdle /\ ParIdle /\ RouteIdle /\ LoadIdle
    /\ ToolIdle

(* lib.rs:189-214: the branch the token takes and what it pushes to out *)
EmitCall ==
    /\ pc = "emit_call"
    /\ path' = TokenPath(input, dictionaries)
    /\ ret' = EmitToken(input, dictionaries)
    /\ pc' = "emit_done"
    /\ UNCHANGED <<input, splitVars, convVars, ri, tokens, chunk_out, out,
                   phrase, emitted, parVars, routeVars, loadVars, toolVars>>

SpecEmit == EmitInit /\ [][EmitCall]_vars

(* C25: a token that is exactly one scalar of the delimiter set is emitted
   unchanged, before any dictionary is consulted, even when a dictionary
   has an entry for it; a token of two or more scalars never takes this
   path, even when all its scalars are delimiters. *)
C25_DelimiterFastPath ==
    pc = "emit_done" =>
        /\ (Len(input) = 1 /\ input[1] \in DELIMITER_SET) =>
               path = "delimiter" /\ ret = input
        /\ Len(input) >= 2 =>
               /\ path # "delimiter"
               /\ Holders(dictionaries, input) # {} =>
                      ret = FirstOr(dictionaries, input)
               /\ Holders(dictionaries, input) = {} =>
                      ret = ScalarByScalar(input, dictionaries)

C25_Witness ==
    /\ pc = "emit_done"
    /\ input = <<FullComma>>
    /\ <<FullComma>> \in DOMAIN dictionaries[1]
    /\ path = "delimiter"
    /\ ret = <<FullComma>>

(* a token of two delimiters is looked up like any other token *)
EmitTwoDelimiters ==
    /\ pc = "emit_done"
    /\ input = <<FullComma, FullComma>>
    /\ path = "phrase"
    /\ ret = <<W0>>

----------------------------------------------------------------------------
(* OfficeConverter, tools/opencc-jieba/src/office_converter/converter.rs   *)
(*                                                                         *)
(* A file system is a function from paths to what is there: nothing, a     *)
(* directory, or a file that holds a finished archive or not.  An archive  *)
(* is the sequence of its entries; an entry has a name, a compression      *)
(* method and its bytes, and a written entry carries the index of the      *)
(* input entry it comes from.  The calls of the model pass keep_font =     *)
(* false.                                                                  *)

(* the string literals of converter.rs:310-466, as scalars *)
Str_mimetype == <<109, 105, 109, 101, 116, 121, 112, 101>>
Str_epub == <<101, 112, 117, 98>>
Str_docx == <<100, 111, 99, 120>>
Str_xlsx == <<120, 108, 115, 120>>
Str_pptx == <<112, 112, 116, 120>>
Str_odt == <<111, 100, 116>>
Str_ods == <<111, 100, 115>>
Str_odp == <<111, 100, 112>>
Str_document_xml == <<119, 111, 114, 100, 47, 100, 111, 99, 117, 109, 101, 110, 116, 46, 120, 109, 108>>
Str_sharedStrings_xml == <<120, 108, 47, 115, 104, 97, 114, 101, 100, 83, 116, 114, 105, 110, 103, 115, 46, 120, 109, 108>>
Str_slides == <<112, 112, 116, 47, 115, 108, 105, 100, 101, 115, 47>>
Str_notesSlides == <<112, 112, 116, 47, 110, 111, 116, 101, 115, 83, 108, 105, 100, 101, 115, 47>>
Str_xml == <<46, 120, 109, 108>>
Str_rels == <<46, 114, 101, 108, 115>>
Str_content_xml == <<99, 111, 110, 116, 101, 110, 116, 46, 120, 109, 108>>
Str_xhtml == <<46, 120, 104, 116, 109, 108>>
Str_opf == <<46, 111, 112, 102>>
Str_ncx == <<46, 110, 99, 120>>
Str_html == <<46, 104, 116, 109, 108>>

Slash == 47
Backslash == 92
Dot == 46

(* the entry names of the model: mimetype, a.xhtml, ..\e.xhtml, /r.opf, d/
   and word/document.xml *)
Entry_mimetype == <<109, 105, 109, 101, 116, 121, 112, 101>>
Entry_xhtml == <<97, 46, 120, 104, 116, 109, 108>>
Entry_parent == <<46, 46, 92, 101, 46, 120, 104, 116, 109, 108>>
Entry_root == <<47, 114, 46, 111, 112, 102>>
Entry_dir == <<100, 47>>
Entry_document == <<119, 111, 114, 100, 47, 100, 111, 99, 117, 109, 101, 110, 116, 46, 120, 109, 108>>

(* the formats of the model: epub, EPUB and docx *)
Format_EPUB == <<69, 80, 85, 66>>

(* str::replace('\\', "/"), converter.rs:367, 394 and 471 *)
replace_backslash(name) ==
    [i \in 1..Len(name) |-> IF name[i] = Backslash THEN Slash ELSE name[i]]

(* str::ends_with and str::starts_with on strings *)
ends_with(text, suffix) ==
    /\ Len(text) >= Len(suffix)
    /\ SubSeq(text, Len(text) - Len(suffix) + 1, Len(text)) = suffix
starts_with_str(text, prefix) ==
    /\ Len(text) >= Len(prefix)
    /\ SubSeq(text, 1, Len(prefix)) = prefix

(* Path::components, converter.rs:481: the pieces of the path between
   slashes *)
RECURSIVE Components(_)
Components(name) ==
    IF \A i \in 1..Len(name) : name[i] # Slash THEN <<name>>
    ELSE LET cut == CHOOSE i \in 1..Len(name) :
                        /\ name[i] = Slash
                        /\ \A j \in 1..(i - 1) : name[j] # Slash
         IN  <<SubSeq(name, 1, cut - 1)>>
             \o Components(SubSeq(name, cut + 1, Len(name)))

(* converter.rs:480-487: a RootDir or a ParentDir component *)
is_unsafe_pathRootOnly(name) ==
    starts_with(name, Slash)
is_unsafe_path(name) ==
    \/ starts_with(name, Slash)
    \/ \E k \in 1..Len(Components(name)) : Components(name)[k] = <<Dot, Dot>>

(* converter.rs:442-465 *)
is_target_entry(format, name) ==
    CASE format = Str_docx -> name = Str_document_xml
      [] format = Str_xlsx -> name = Str_sharedStrings_xml
      [] format = Str_pptx ->
             /\ ends_with(name, Str_xml)
             /\ ~ends_with(name, Str_rels)
             /\ (\/ starts_with_str(name, Str_slides)
                 \/ starts_with_str(name, Str_notesSlides))
      [] format \in {Str_odt, Str_ods, Str_odp} -> name = Str_content_xml
      [] format = Str_epub ->
             LET lower == to_ascii_lowercase(name)
             IN  \/ ends_with(lower, Str_xhtml) \/ ends_with(lower, Str_opf)
                 \/ ends_with(lower, Str_ncx) \/ ends_with(lower, Str_html)
      [] OTHER -> FALSE

(* ZipFile::is_dir, converter.rs:370 and 402 *)
is_dir(entry) ==
    entry.name # <<>> /\ entry.name[Len(entry.name)] \in {Slash, Backslash}

(* converter.rs:468-477: the index of the first entry named mimetype *)
find_mimetype_indexNone(zin) == None
find_mimetype_index(zin) ==
    LET hits == {i \in 1..Len(zin) :
                    replace_backslash(zin[i].name) = Str_mimetype}
    IN  IF hits = {} THEN None
        ELSE Some(CHOOSE i \in hits : \A j \in hits : i <= j)

Absent == [kind |-> "none"]
Directory == [kind |-> "dir"]
File(finished, entries) ==
    [kind |-> "file", finished |-> finished, entries |-> entries]
Entry(name, method, data) == [name |-> name, method |-> method, data |-> data]
Written(name, method, data, from) ==
    [name |-> name, method |-> method, data |-> data, from |-> from]

MaxEntries == 3

EntryPool ==
    {Entry(Entry_mimetype, "deflated", <<109>>),
     Entry(Entry_xhtml, "deflated", <<LatinA>>),
     Entry(Entry_parent, "deflated", <<LatinA>>),
     Entry(Entry_root, "stored", <<LatinA>>),
     Entry(Entry_dir, "stored", <<>>),
     Entry(Entry_document, "deflated", <<LatinA>>)}

Archives ==
    UNION {{a \in [1..k -> EntryPool] :
               \A i \in 1..k : \A j \in 1..k : a[i] = a[j] => i = j} :
           k \in 0..MaxEntries}

OldFile == File(TRUE, <<Entry(Entry_xhtml, "stored", <<LatinA, LatinA>>)>>)
Paths == {"in", "out", "tmp"}
Formats == {Str_epub, Format_EPUB, Str_docx}
OfficeConfigs == {Name_s2t, <<115, 50>>}

(* Path::with_extension(format!("tmp.{}", ext)), converter.rs:551-556 *)
tmp_out == "tmp"

NoZip == [zin |-> <<>>, z_out |-> <<>>, i |-> 0, mimetype_index |-> None]

OfficeInit ==
    /\ pc = "office_call"
    /\ \E a \in Archives : \E ip \in Paths :
       \E o \in {Absent, Directory, OldFile} :
           disk = [p \in Paths |->
                      IF p = ip THEN File(TRUE, a)
                      ELSE IF p = "out" THEN o ELSE Absent]
    /\ \E f \in Formats : \E c \in OfficeConfigs :
           args = [input_path |-> CHOOSE p \in Paths :
                                      /\ disk[p].kind = "file"
                                      /\ (p = "out" =>
                                              /\ disk["in"] = Absent
                                              /\ disk["tmp"] = Absent),
                   output_path |-> "out", format |-> f, config |-> c,
                   punctuation |-> FALSE, keep_font |-> FALSE,
                   before |-> disk]
    /\ args.before[args.input_path] # OldFile
    /\ opencc = CliOpenCC
    /\ zip = NoZip
    /\ input = <<>>
    /\ ret = <<>>
    /\ dictionaries = <<>>
    /\ SplitIdle /\ TokenIdle /\ ParIdle /\ RouteIdle /\ LoadIdle
    /\ CSTR = 0 /\ threads = <<>>

officeFrame ==
    <<splitVars, convVars, tokenVars, parVars, loadVars, CSTR, threads>>

(* the call returns Err *)
OfficeErr ==
    /\ pc' = "office_failed"
    /\ ret' = Err

(* converter.rs:260-274 and 548-559: the paths are compared, and a stale
   temp file is removed, errors ignored *)
OfficeBegin ==
    /\ pc = "office_call"
    /\ IF args.input_path = args.output_path
       THEN OfficeErr /\ UNCHANGED disk
       ELSE /\ disk' = [disk EXCEPT ![tmp_out] =
                           IF @.kind = "file" THEN Absent ELSE @]
            /\ pc' = "office_create"
            /\ UNCHANGED ret
    /\ UNCHANGED <<input, routeVars, args, zip, officeFrame>>

(* converter.rs:563-564: File::create(&tmp_out) and ZipWriter::new *)
OfficeCreate ==
    /\ pc = "office_create"
    /\ IF disk[tmp_out].kind = "dir"
       THEN OfficeErr /\ UNCHANGED disk
       ELSE /\ disk' = [disk EXCEPT ![tmp_out] = File(FALSE, <<>>)]
            /\ pc' = "office_open"
            /\ UNCHANGED ret
    /\ UNCHANGED <<input, routeVars, args, zip, officeFrame>>

(* converter.rs:277-278 and 355: File::open(input_path) and
   ZipArchive::new *)
OfficeOpen ==
    /\ pc = "office_open"
    /\ LET file == disk[args.input_path]
       IN  IF file.kind = "file" /\ file.finished
           THEN /\ zip' = [NoZip EXCEPT !.zin = file.entries]
                /\ pc' = "office_mimetype"
                /\ UNCHANGED ret
           ELSE OfficeErr /\ UNCHANGED zip
    /\ UNCHANGED <<input, routeVars, args, disk, officeFrame>>

(* converter.rs:361-383: for EPUB, mimetype is written first, stored *)
OfficeMimetype ==
    /\ pc = "office_mimetype"
    /\ LET mi == IF eq_ignore_ascii_case(args.format, Str_epub)
                 THEN find_mimetype_index(zip.zin) ELSE None
           entry == zip.zin[mi.val]
           name == replace_backslash(entry.name)
       IN  zip' = [zip EXCEPT
                      !.mimetype_index = mi,
                      !.i = 1,
                      !.z_out =
                          IF /\ mi.some
                             /\ ~is_unsafe_path(name) /\ ~is_dir(entry)
                             /\ name = Str_mimetype
                          THEN <<Written(Str_mimetype, "stored", entry.data,
                                         mi.val)>>
                          ELSE <<>>]
    /\ pc' = "office_entries"
    /\ UNCHANGED <<input, ret, routeVars, args, disk, officeFrame>>

(* converter.rs:386-417: one turn of the loop over the entries, up to the
   call of convert for a target entry *)
OfficeEntry ==
    /\ pc = "office_entries"
    /\ zip.i <= Len(zip.zin)
    /\ LET i == zip.i
           entry == zip.zin[i]
           name == replace_backslash(entry.name)
           next == [zip EXCEPT !.i = i + 1]
       IN  IF /\ eq_ignore_ascii_case(args.format, Str_epub)
              /\ zip.mimetype_index = Some(i)
           THEN /\ zip' = next
                /\ UNCHANGED <<pc, input, ret, routeVars>>
           ELSE IF is_unsafe_path(name)
           THEN /\ zip' = next
                /\ UNCHANGED <<pc, input, ret, routeVars>>
           ELSE IF is_dir(entry) \/ ends_with(name, <<Slash>>)
           THEN /\ zip' = [next EXCEPT !.z_out =
                              Append(@, Written(name, "stored", <<>>, i))]
                /\ UNCHANGED <<pc, input, ret, routeVars>>
           ELSE IF is_target_entry(args.format, name)
           THEN IF ~to_str(entry.data).ok
                THEN OfficeErr /\ UNCHANGED <<input, routeVars, zip>>
                ELSE /\ input' = to_str(entry.data).val
                     /\ config' = args.config
                     /\ punctuation' = args.punctuation
                     /\ pc' = "convert_call"
                     /\ UNCHANGED <<ret, zip>>
           ELSE /\ zip' = [next EXCEPT !.z_out =
                              Append(@, Written(entry.name, entry.method,
                                                entry.data, i))]
                /\ UNCHANGED <<pc, input, ret, routeVars>>
    /\ UNCHANGED <<args, disk, officeFrame>>

(* converter.rs:417-430: the converted text is written, deflated, under the
   entry's name *)
OfficeWriteConverted ==
    /\ pc = "convert_done"
    /\ zip' = [zip EXCEPT
                  !.i = @ + 1,
                  !.z_out = Append(@, Written(
                                replace_backslash(zip.zin[zip.i].name),
                                "deflated", as_bytes(ret), zip.i))]
    /\ pc' = "office_entries"
    /\ UNCHANGED <<input, ret, routeVars, args, disk, officeFrame>>

(* converter.rs:436 and 566: the loop is over and ZipWriter::finish
   completes the temp archive *)
OfficeFinish ==
    /\ pc = "office_entries"
    /\ zip.i > Len(zip.zin)
    /\ disk' = [disk EXCEPT ![tmp_out] = File(TRUE, zip.z_out)]
    /\ pc' = "office_remove"
    /\ UNCHANGED <<input, ret, routeVars, args, zip, officeFrame>>

(* converter.rs:522-543 and 570: remove_existing_file(final_out) *)
OfficeRemoveOld ==
    /\ pc = "office_remove"
    /\ LET old == disk[args.output_path]
       IN  IF old.kind = "none"
           THEN pc' = "office_rename" /\ UNCHANGED <<disk, ret>>
           ELSE IF old.kind = "dir"
           THEN OfficeErr /\ UNCHANGED disk
           ELSE /\ disk' = [disk EXCEPT ![args.output_path] = Absent]
                /\ pc' = "office_rename"
                /\ UNCHANGED ret
    /\ UNCHANGED <<input, routeVars, args, zip, officeFrame>>

(* converter.rs:571 and 293-296: fs::rename(&tmp_out, final_out), and the
   call returns its result *)
OfficeRename ==
    /\ pc = "office_rename"
    /\ disk' = [disk EXCEPT ![args.output_path] = disk[tmp_out],
                            ![tmp_out] = Absent]
    /\ pc' = "office_done"
    /\ ret' = Ok("completed")
    /\ UNCHANGED <<input, routeVars, args, zip, officeFrame>>

(* The steps that do input or output; each may fail, and the ? operator
   returns the error at once. *)
FallibleSteps ==
    {"office_create", "office_open", "office_mimetype", "office_entries",
     "convert_done", "office_remove", "office_rename"}

(* converter.rs: a step fails with an io::Error *)
OfficeIoError ==
    /\ pc \in FallibleSteps
    /\ OfficeErr
    /\ UNCHANGED <<input, routeVars, args, disk, zip, officeFrame>>

OfficeNext ==
    \/ OfficeBegin
    \/ OfficeCreate
    \/ OfficeOpen
    \/ OfficeMimetype
    \/ OfficeEntry
    \/ ConvertS2t
    \/ ConvertInvalid
    \/ OfficeWriteConverted
    \/ OfficeFinish
    \/ OfficeRemoveOld
    \/ OfficeRename
    \/ OfficeIoError

SpecOffice == OfficeInit /\ [][OfficeNext]_vars


(* The entries of the archive at input_path when the call was made. *)
InputArchive == args.before[args.input_path].entries

(* The steps after the EPUB mimetype step of a call that has not failed. *)
PastMimetype ==
    pc \in {"office_entries", "convert_call", "convert_done",
            "office_remove", "office_rename", "office_done"}

(* C27: when a step of the conversion fails, the file at output_path is
   exactly what it was before the call, absent or with its previous
   content. *)
C27_OutputUntouchedOnFailure ==
    pc = "office_failed" =>
        disk[args.output_path] = args.before[args.output_path]

(* What does hold: the file at output_path is never a partial archive, and a
   failed call leaves it as it was or, its removal done and the rename
   failed, absent. *)
OutputNeverPartial ==
    /\ disk[args.output_path].kind = "file" =>
           disk[args.output_path].finished
    /\ pc = "office_failed" =>
           \/ disk[args.output_path] = args.before[args.output_path]
           \/ /\ disk[args.output_path] = Absent
              /\ args.before[args.output_path].kind = "file"
              /\ disk[tmp_out] = File(TRUE, zip.z_out)

(* A failed call that lost the previous content of output_path. *)
OutputLost ==
    /\ pc = "office_failed"
    /\ args.before[args.output_path] = OldFile
    /\ disk[args.output_path] = Absent

EpubWithMimetype ==
    /\ eq_ignore_ascii_case(args.format, Str_epub)
    /\ \E i \in 1..Len(InputArchive) : InputArchive[i].name = Str_mimetype

MimetypeFirst(written) ==
    /\ written # <<>>
    /\ written[1].name = Str_mimetype
    /\ written[1].method = "stored"
    /\ \E i \in 1..Len(InputArchive) :
           /\ InputArchive[i].name = Str_mimetype
           /\ written[1].data = InputArchive[i].data
    /\ \A k \in 2..Len(written) : written[k].name # Str_mimetype
    /\ \A j \in 2..Len(written) : \A k \in 2..Len(written) :
           j < k => written[j].from < written[k].from

(* C28: for format epub and an input with an entry named mimetype, the
   output has mimetype as its first entry, stored, with the same bytes and
   once; the other written entries follow it in the input's order. *)
C28_MimetypeFirstStored ==
    EpubWithMimetype =>
        /\ PastMimetype => MimetypeFirst(zip.z_out)
        /\ pc = "office_done" =>
               disk[args.output_path] = File(TRUE, zip.z_out)

C28_Witness ==
    /\ pc = "office_done"
    /\ EpubWithMimetype
    /\ Len(InputArchive) = MaxEntries
    /\ InputArchive[MaxEntries].name = Str_mimetype
    /\ Len(disk[args.output_path].entries) = MaxEntries

(* A name with a root component or a parent-directory component. *)
ParentOrRoot(name) ==
    LET parts == Components(replace_backslash(name))
    IN  \/ name # <<>> /\ name[1] \in {Slash, Backslash}
        \/ \E k \in 1..Len(parts) : parts[k] = <<Dot, Dot>>

(* What the output holds for the file entry at index i of the input. *)
ExpectedEntry(i) ==
    LET entry == InputArchive[i]
        name == replace_backslash(entry.name)
    IN  IF /\ eq_ignore_ascii_case(args.format, Str_epub)
           /\ name = Str_mimetype
        THEN Written(Str_mimetype, "stored", entry.data, i)
        ELSE IF is_target_entry(args.format, name)
        THEN Written(name, "deflated",
                     as_bytes(convert(opencc, to_str(entry.data).val,
                                      args.config, args.punctuation)), i)
        ELSE Written(entry.name, entry.method, entry.data, i)

(* C29: no entry whose name has a parent-directory or a root component is
   written, in the mimetype step or in the loop; every other file entry of
   the input is in the output once, converted when it is a target entry of
   the format and copied raw otherwise. *)
C29_UnsafeSkippedOthersOnce ==
    /\ \A k \in 1..Len(zip.z_out) : ~ParentOrRoot(zip.z_out[k].name)
    /\ pc = "office_done" =>
           /\ disk[args.output_path] = File(TRUE, zip.z_out)
           /\ \A i \in 1..Len(InputArchive) :
                  LET copies == {k \in 1..Len(zip.z_out) :
                                     zip.z_out[k].from = i}
                  IN  IF ParentOrRoot(InputArchive[i].name)
                      THEN copies = {}
                      ELSE ~is_dir(InputArchive[i]) =>
                               /\ Cardinality(copies) = 1
                               /\ \A k \in copies :
                                      zip.z_out[k] = ExpectedEntry(i)

C29_Witness ==
    /\ pc = "office_done"
    /\ args.format = Str_epub
    /\ \E i \in 1..Len(InputArchive) : ParentOrRoot(InputArchive[i].name)
    /\ \E k \in 1..Len(zip.z_out) :
           /\ zip.z_out[k].name = Entry_xhtml
           /\ zip.z_out[k].method = "deflated"
           /\ zip.z_out[k].data # <<LatinA>>
    /\ \E k \in 1..Len(zip.z_out) :
           /\ zip.z_out[k].name = Entry_document
           /\ zip.z_out[k] = ExpectedEntry(zip.z_out[k].from)


-----------------------------------------------------------------------------
(* opencc_jieba_version_string, capi lib.rs:15-33.  The function keeps the
   pointer in a static mut, CSTR, that it reads and writes without a lock or
   an atomic: threads interleave between its accesses.  CSTR = 0 is the null
   pointer, an allocation returns a fresh address, args.allocated counts the
   allocations of the process and args.returned collects the pointers
   returned; args.overlap records that a call began while another was
   running. *)

NumThreads == 3
MaxCalls == 2

Threads == 1..NumThreads

VersionInit ==
    /\ pc = "version_string"
    /\ CSTR = 0
    /\ threads = [t \in Threads |-> [at |-> "idle", calls |-> 0, raw |-> 0]]
    /\ args = [allocated |-> 0, returned |-> {}, overlap |-> FALSE]
    /\ input = <<>>
    /\ ret = <<>>
    /\ disk = <<>>
    /\ zip = <<>>
    /\ SplitIdle /\ ConvIdle /\ TokenIdle /\ ParIdle /\ RouteIdle /\ LoadIdle

versionFrame ==
    <<callVars, splitVars, convVars, tokenVars, parVars, routeVars, loadVars,
      disk, zip>>

(* capi lib.rs:20: a thread enters the function *)
VersionCall(t) ==
    /\ threads[t].at = "idle"
    /\ threads[t].calls < MaxCalls
    /\ threads' = [threads EXCEPT ![t].at = "check", ![t].calls = @ + 1]
    /\ args' = [args EXCEPT !.overlap =
                   @ \/ \E u \in Threads : threads[u].at # "idle"]
    /\ UNCHANGED <<CSTR, versionFrame>>

(* capi lib.rs:28: if CSTR.is_null() *)
VersionCheck(t) ==
    /\ threads[t].at = "check"
    /\ threads' = [threads EXCEPT
                      ![t].at = IF CSTR = 0 THEN "allocate" ELSE "load"]
    /\ UNCHANGED <<CSTR, args, versionFrame>>

(* capi lib.rs:29: CString::new(VERSION).unwrap().into_raw() *)
VersionAllocate(t) ==
    /\ threads[t].at = "allocate"
    /\ args' = [args EXCEPT !.allocated = @ + 1]
    /\ threads' = [threads EXCEPT ![t].at = "store",
                                  ![t].raw = args.allocated + 1]
    /\ UNCHANGED <<CSTR, versionFrame>>

(* capi lib.rs:29: CSTR = ... *)
VersionStore(t) ==
    /\ threads[t].at = "store"
    /\ CSTR' = threads[t].raw
    /\ threads' = [threads EXCEPT ![t].at = "load"]
    /\ UNCHANGED <<args, versionFrame>>

(* capi lib.rs:31: the function returns CSTR *)
VersionReturn(t) ==
    /\ threads[t].at = "load"
    /\ args' = [args EXCEPT !.returned = @ \cup {CSTR}]
    /\ threads' = [threads EXCEPT ![t].at = "idle"]
    /\ UNCHANGED <<CSTR, versionFrame>>

VersionNext ==
    \E t \in Threads :
        \/ VersionCall(t)
        \/ VersionCheck(t)
        \/ VersionAllocate(t)
        \/ VersionStore(t)
        \/ VersionReturn(t)

SpecVersion == VersionInit /\ [][VersionNext]_vars

(* C30: the function allocates its C string at most once per process and
   every call returns the same pointer, under any interleaving of concurrent
   first calls. *)
C30_OneAllocationOnePointer ==
    /\ args.allocated <= 1
    /\ Cardinality(args.returned) <= 1

(* What does hold: calls that never overlap allocate once and return one
   pointer, and no call returns the null pointer. *)
VersionSerialOnce ==
    /\ ~args.overlap => C30_OneAllocationOnePointer
    /\ 0 \notin args.returned

(* Two calls have returned different pointers. *)
TwoPointers ==
    /\ Cardinality(args.returned) >= 2
    /\ \A t \in Threads : threads[t].at = "idle"

====
